---- MODULE Spec2Model ----
(***************************************************************************)
(* Aquae (tsella/fishtank): the aquarium state engine (AquariumLogic), the *)
(* persistence gateway (SqliteDB / PostgresDB) and the bounded leaderboard.*)
(*                                                                         *)
(* Units.  Time is counted in whole minutes since midnight.  Hunger is     *)
(* kept in tenths of a hunger point, so that every rate of the modelled    *)
(* species (threshold / feed interval, times 1.0 or 0.3) is an integer     *)
(* number of tenths per minute and the arithmetic of updateFishStates is   *)
(* exact.                                                                  *)
(***************************************************************************)
EXTENDS Integers, Sequences, FiniteSets, TLC

VARIABLES
    catalog,         \* fishConfig.fishTypes: the species names loaded at startup
    now,             \* the wall clock (new Date()), minutes since midnight
    aquariums,       \* table aquariums: a set of rows
    fish,            \* table fish: a set of rows
    leaderboard,     \* table leaderboard (committed rows): a set of rows
    nextFishId,      \* AUTOINCREMENT / SERIAL counter of fish.id
    nextAquariumId,  \* AUTOINCREMENT / SERIAL counter of aquariums.id
    response,        \* what the last completed request returned
    lastReq,         \* the last completed request: kind, psid, time
    steps,           \* number of requests served so far
    txn,             \* per concurrent caller: position inside updateLeaderboard
    backend,         \* DB_CLIENT: "sqlite" or "postgres"
    redis            \* the deployment with USE_REDIS=true: its cache and database

vars == <<catalog, now, aquariums, fish, leaderboard, nextFishId,
          nextAquariumId, response, lastReq, steps, txn, backend, redis>>

(***************************************************************************)
(* Bounds of the model.                                                    *)
(***************************************************************************)
MaxLbFish == 11      \* fish rows created in the leaderboard specifications
MaxFishId == 5       \* fish rows created in the engine specifications
MaxSteps == 2        \* requests per behaviour of the engine specifications
MaxElapsed == 6      \* minutes the clock may advance
MaxFailAt == 3       \* storage statements that succeed before one throws
MaxCacheSteps == 2   \* requests per behaviour of the cache specification
MaxPushSteps == 2    \* pushes per behaviour of the push specification
MaxHttpSteps == 2    \* requests per behaviour of the HTTP specification
MaxEnvKeys == 2       \* FISH_* variables of a deployment
MaxSessionSteps == 3  \* updateLeaderboard calls per behaviour of SpecSessionLB
MaxLoggedSaves == 2   \* saves per behaviour of SpecSaveLog
MaxGatewaySteps == 3  \* gateway operations per behaviour of SpecGateway
MaxStarve == 17      \* minutes the clock may run past 20:00 while fish starve
MaxTankLifeHours == 74   \* tank life of the aquarium a species is drawn for
RandomSteps == 20    \* values Math.random() takes: 0, 1/20, ..., 19/20

(***************************************************************************)
(* Program constants.                                                      *)
(***************************************************************************)
LeaderboardLimit == 10
CastleThreshold == 2
SubmarineThreshold == 4
feedingsRequired == 5
CacheTtl == 5         \* setAquarium(psid, aquarium, 300): 300 s, in minutes
MinPsidLength == 3    \* sanitizedPSID.length < 3
MaxPsidLength == 64   \* .slice(0, 64)
InvalidDate == -1     \* a last_fed for which new Date(...).getTime() is NaN

PSIDs == {"p1", "p2"}
Callers == {"c1", "c2"}
Backends == {"sqlite", "postgres"}

Min(a, b) == IF a < b THEN a ELSE b
Max(a, b) == IF a > b THEN a ELSE b
Tenths(n) == n * 10

\* Object.assign(row, updates): only the named fields change.
Assign(row, updates) ==
    [f \in DOMAIN row |-> IF f \in DOMAIN updates THEN updates[f] ELSE row[f]]

(***************************************************************************)
(* The species catalog (config/fish.js).                                   *)
(***************************************************************************)
FishDefs ==
    [Clownfish |-> [name |-> "Clownfish", feedIntervalMin |-> 5,
                    hungerThreshold |-> Tenths(60), rarity |-> "common",
                    cycle |-> "diurnal"],
     Betta     |-> [name |-> "Betta", feedIntervalMin |-> 3,
                    hungerThreshold |-> Tenths(45), rarity |-> "rare",
                    cycle |-> "nocturnal"]]

\* Insertion order of the fishTypes Map.
SpeciesOrder == <<"Clownfish", "Betta">>

\* The FISH_* definitions a deployment may carry.
Catalogs == {{"Clownfish", "Betta"}, {"Betta"}}

\* A lookup that finds every species of the defaults, configured or not.
getFishType_Any(cat, name) == name \in DOMAIN FishDefs

getFishType(cat, name) == name \in cat

getAllFishTypes(cat) == SelectSeq(SpeciesOrder, LAMBDA s : s \in cat)

getFishByRarity(cat, rarity) ==
    SelectSeq(getAllFishTypes(cat), LAMBDA s : FishDefs[s].rarity = rarity)

isFishActive(fishType, time) ==
    LET hour == (time \div 60) % 24
    IN  IF fishType.cycle = "diurnal" THEN hour >= 6 /\ hour < 20
        ELSE hour >= 20 \/ hour < 6

\* A hunger rate that halves, rather than 0.3 times, for a resting fish.
getHungerRate_HalfResting(fishType, isActive) ==
    IF isActive THEN fishType.hungerThreshold \div fishType.feedIntervalMin
    ELSE fishType.hungerThreshold \div (fishType.feedIntervalMin * 2)

\* Hunger rate in tenths of a point per minute:
\* threshold / (feedIntervalMin * 60) * multiplier * 60, multiplier 1.0 or 0.3.
getHungerRate(fishType, isActive) ==
    IF isActive THEN fishType.hungerThreshold \div fishType.feedIntervalMin
    ELSE (fishType.hungerThreshold * 3) \div (fishType.feedIntervalMin * 10)

\* Spawn conditions that ask for one feeding more.
getSpawnConditions_OneMore(fishType) ==
    [feedingsRequired |-> feedingsRequired + 1]

getSpawnConditions(fishType) == [feedingsRequired |-> feedingsRequired]

\* selectRandomFish: every rarity has a positive weight, so any rarity can be
\* drawn; a rarity without species falls back to any species of the catalog.
selectRandomFish(cat) ==
    IF cat = {} THEN {}
    ELSE UNION { IF \E s \in cat : FishDefs[s].rarity = r
                 THEN {s \in cat : FishDefs[s].rarity = r}
                 ELSE cat
               : r \in {"common", "uncommon", "rare", "very_rare"} }

\* this.rarityWeights in units of 1/4000, in the order of the object's keys.
RarityOrder == <<"common", "uncommon", "rare", "very_rare">>

rarityWeights ==
    [common |-> 2000, uncommon |-> 1200, rare |-> 600, very_rare |-> 200]

\* Weights that grow with the tank from 24 hours on, not after them.
adjustedWeights_From24(tankLifeHours) ==
    LET w1 == IF tankLifeHours >= 24
              THEN [rarityWeights EXCEPT !.rare = (@ * 3) \div 2,
                                         !.very_rare = @ * 2]
              ELSE rarityWeights
    IN  IF tankLifeHours > 72
        THEN [w1 EXCEPT !.very_rare = (@ * 3) \div 2] ELSE w1

\* selectRandomFish, the weights before they are normalized.
adjustedWeights(tankLifeHours) ==
    LET w1 == IF tankLifeHours > 24
              THEN [rarityWeights EXCEPT !.rare = (@ * 3) \div 2,
                                         !.very_rare = @ * 2]
              ELSE rarityWeights
    IN  IF tankLifeHours > 72
        THEN [w1 EXCEPT !.very_rare = (@ * 3) \div 2] ELSE w1

\* Object.values(adjustedWeights).reduce((sum, weight) => sum + weight, 0)
totalWeight(w) == w.common + w.uncommon + w.rare + w.very_rare

\* The normalized weights as fractions: weight / totalWeight.
normalizedWeights(w) ==
    [r \in DOMAIN w |-> [num |-> w[r], den |-> totalWeight(w)]]

\* The sum of the normalized weights of the first n rarities, as a
\* numerator over totalWeight.
RECURSIVE cumulative(_, _)
cumulative(nw, n) ==
    IF n = 0 THEN 0 ELSE cumulative(nw, n - 1) + nw[RarityOrder[n]].num

\* The rarity the loop stops at for Math.random() = random / RandomSteps:
\* the first one with random <= cumulative.
selectedRarity(nw, random) ==
    LET hits == {n \in 1..Len(RarityOrder) :
                    random * nw[RarityOrder[n]].den
                        <= cumulative(nw, n) * RandomSteps}
    IN  IF hits = {} THEN "common"
        ELSE RarityOrder[CHOOSE n \in hits : \A m \in hits : n <= m]

\* list[Math.floor(Math.random() * list.length)]
randomElement(list, random) == list[(random * Len(list)) \div RandomSteps + 1]

\* A draw that gives up when the catalog has no species of the drawn rarity.
selectRandomFishDraw_NoFallback(cat, tankLifeHours, random1, random2) ==
    LET fishOfRarity ==
            getFishByRarity(cat,
                selectedRarity(
                    normalizedWeights(adjustedWeights(tankLifeHours)), random1))
    IN  IF Len(fishOfRarity) = 0 THEN "none"
        ELSE randomElement(fishOfRarity, random2)

\* selectRandomFish for given values of its two Math.random() calls; "none"
\* is null.
selectRandomFishDraw(cat, tankLifeHours, random1, random2) ==
    LET fishTypes == getAllFishTypes(cat)
        rarity == selectedRarity(
                      normalizedWeights(adjustedWeights(tankLifeHours)), random1)
        fishOfRarity == getFishByRarity(cat, rarity)
    IN  IF Len(fishTypes) = 0 THEN "none"
        ELSE IF Len(fishOfRarity) = 0 THEN randomElement(fishTypes, random2)
        ELSE randomElement(fishOfRarity, random2)

(***************************************************************************)
(* The persistence gateway.  A database is a record of the three tables    *)
(* and the two id counters; every operator below is one SQL statement.     *)
(***************************************************************************)
DB == [aquariums |-> aquariums, fish |-> fish, leaderboard |-> leaderboard,
       nextFishId |-> nextFishId, nextAquariumId |-> nextAquariumId]

NewAquariumRow(id, psid) ==
    [id |-> id, psid |-> psid, tank_life_sec |-> 0, num_fish |-> 0,
     total_feedings |-> 0, food_level |-> 50, castle_unlocked |-> FALSE,
     submarine_unlocked |-> FALSE, music_enabled |-> TRUE]

\* INSERT INTO aquariums (psid) VALUES (?)
InsertAquarium(db, psid) ==
    [db EXCEPT !.aquariums = @ \cup {NewAquariumRow(db.nextAquariumId, psid)},
               !.nextAquariumId = @ + 1]

\* UPDATE aquariums SET ... WHERE psid = ?
updateAquarium(db, psid, updates) ==
    [db EXCEPT !.aquariums =
        {IF a.psid = psid THEN Assign(a, updates) ELSE a : a \in @}]

\* INSERT INTO fish (...) VALUES (...)
InsertFish(db, aquariumId, fishData, time) ==
    [db EXCEPT !.fish = @ \cup
                   {[id |-> db.nextFishId, aquarium_id |-> aquariumId,
                     type |-> fishData.type, hunger |-> fishData.hunger,
                     x |-> fishData.x, y |-> fishData.y,
                     last_fed |-> fishData.last_fed,
                     spawn_count |-> fishData.spawn_count,
                     created_at |-> time]},
               !.nextFishId = @ + 1]

\* An update that writes the whole row: the named columns from the call,
\* every other column from the column defaults of the table.
updateFish_Replacing(db, fishId, updates) ==
    [db EXCEPT !.fish =
        {IF f.id = fishId
         THEN Assign([f EXCEPT !.hunger = 0, !.x = 400, !.y = 300,
                               !.spawn_count = 0], updates)
         ELSE f : f \in @}]

\* UPDATE fish SET ... WHERE id = ?
updateFish(db, fishId, updates) ==
    [db EXCEPT !.fish =
        {IF f.id = fishId THEN Assign(f, updates) ELSE f : f \in @}]

\* DELETE FROM fish WHERE id = ?
DeleteFish(db, fishId) ==
    [db EXCEPT !.fish = {f \in @ : f.id # fishId}]

\* DELETE FROM leaderboard WHERE fish_id = ?
DeleteLeaderboardRow(db, fishId) ==
    [db EXCEPT !.leaderboard = {r \in @ : r.fish_id # fishId}]

LeaderboardRow(f, psid) ==
    [fish_id |-> f.id, aquarium_id |-> f.aquarium_id, psid |-> psid,
     fish_type |-> f.type, created_at |-> f.created_at]

\* INSERT INTO leaderboard ... ON CONFLICT(fish_id) DO NOTHING
UpsertLeaderboard(lb, row) ==
    IF \E r \in lb : r.fish_id = row.fish_id THEN lb ELSE lb \cup {row}

\* DELETE FROM leaderboard WHERE fish_id NOT IN
\*   (SELECT fish_id FROM leaderboard ORDER BY created_at ASC LIMIT 10):
\* the tables the statement may leave.  SQL does not order rows of equal
\* created_at, so any choice among the rows tied at the cut is possible.
TrimResults(lb) ==
    IF Cardinality(lb) <= LeaderboardLimit THEN {lb}
    ELSE LET below(v) == {r \in lb : r.created_at < v}
             upto(v)  == {r \in lb : r.created_at <= v}
             cut == CHOOSE v \in {r.created_at : r \in lb} :
                        /\ Cardinality(below(v)) < LeaderboardLimit
                        /\ Cardinality(upto(v)) >= LeaderboardLimit
             ties == upto(cut) \ below(cut)
         IN  { below(cut) \cup T : T \in
                 {S \in SUBSET ties :
                     Cardinality(S) = LeaderboardLimit - Cardinality(below(cut))} }

\* The table one sequential trim leaves.  Wherever the sequential gateway
\* runs the trim the statement has a single possible result (no two rows
\* tied at the cut); the concurrent specification draws from TrimResults.
\* The upsert without the DELETE that follows it.
Trim_Skipped(lb) == lb

\* A trim that orders by created_at DESC and so keeps the newest rows.
Trim_KeepNewest(lb) ==
    {r \in lb : Cardinality({q \in lb : q.created_at > r.created_at})
                    < LeaderboardLimit}

Trim(lb) == CHOOSE K \in TrimResults(lb) : TRUE

\* The rows of S in ascending created_at; SQL leaves the order of rows of
\* equal created_at open, here they come in some fixed order.
RECURSIVE SortByCreatedAt(_)
SortByCreatedAt(S) ==
    IF S = {} THEN <<>>
    ELSE LET m == CHOOSE r \in S : \A q \in S : r.created_at <= q.created_at
         IN  <<m>> \o SortByCreatedAt(S \ {m})

\* SELECT fish_id, psid, fish_type, created_at FROM leaderboard
\* ORDER BY created_at ASC LIMIT 10
getLeaderboard(db) ==
    LET sorted == SortByCreatedAt(db.leaderboard)
        top == SubSeq(sorted, 1, Min(Len(sorted), LeaderboardLimit))
    IN  [i \in 1..Len(top) |->
            [fish_id |-> top[i].fish_id, psid |-> top[i].psid,
             fish_type |-> top[i].fish_type, created_at |-> top[i].created_at]]

(***************************************************************************)
(* Execution of one request.  st.db is the database, st.aq the in-memory   *)
(* aquarium object, st.budget the number of storage statements that still  *)
(* succeed before one throws (negative: none throws), st.failed whether an *)
(* exception is propagating, st.faults the number of statements that threw.*)
(***************************************************************************)
Stmt(st, newdb) ==
    IF st.failed THEN st
    ELSE IF st.budget = 0
         THEN [st EXCEPT !.failed = TRUE, !.faults = @ + 1, !.budget = -1]
         ELSE [st EXCEPT !.db = newdb,
                         !.budget = IF @ > 0 THEN @ - 1 ELSE @]

RECURSIVE SortById(_)
SortById(S) ==
    IF S = {} THEN <<>>
    ELSE LET m == CHOOSE r \in S : \A q \in S : r.id <= q.id
         IN  <<m>> \o SortById(S \ {m})

AquariumObject(row, fishSeq) ==
    [id |-> row.id, psid |-> row.psid, tank_life_sec |-> row.tank_life_sec,
     num_fish |-> row.num_fish, total_feedings |-> row.total_feedings,
     food_level |-> row.food_level, castle_unlocked |-> row.castle_unlocked,
     submarine_unlocked |-> row.submarine_unlocked,
     music_enabled |-> row.music_enabled, fish |-> fishSeq]

NoAquarium == AquariumObject(NewAquariumRow(0, ""), <<>>)

HasAquarium(db, psid) == \E a \in db.aquariums : a.psid = psid

\* SELECT a.*, f.* FROM aquariums a LEFT JOIN fish f ... ORDER BY f.id
getAquarium(db, psid) ==
    LET row == CHOOSE a \in db.aquariums : a.psid = psid
    IN  AquariumObject(row,
            SortById({f \in db.fish : f.aquarium_id = row.id}))

createAquarium(st, psid) ==
    LET s1 == Stmt(st, InsertAquarium(st.db, psid))
    IN  IF s1.failed THEN s1
        ELSE [s1 EXCEPT !.aq =
                 AquariumObject(NewAquariumRow(st.db.nextAquariumId, psid), <<>>)]

\* SqliteDB.removeFish: two statements, no transaction.
removeFish(st, fishId) ==
    LET s1 == Stmt(st, DeleteFish(st.db, fishId))
    IN  Stmt(s1, DeleteLeaderboardRow(s1.db, fishId))

\* SqliteDB.updateLeaderboard: the upsert, then the trim from its callback;
\* two statements, no transaction.
updateLeaderboard(st, f, psid) ==
    IF ~({"id", "aquarium_id", "type", "created_at"} \subseteq DOMAIN f)
    THEN st
    ELSE LET s1 == Stmt(st, [st.db EXCEPT !.leaderboard =
                                UpsertLeaderboard(@, LeaderboardRow(f, psid))])
         IN  Stmt(s1, [s1.db EXCEPT !.leaderboard = Trim(@)])

\* SqliteDB.addFish: the INSERT, then the SELECT of the new row.
addFish(st, aquariumId, fishData, time) ==
    LET s1 == Stmt(st, InsertFish(st.db, aquariumId, fishData, time))
    IN  Stmt(s1, s1.db)

\* PostgresDB.updateLeaderboard called alone: BEGIN, upsert, trim, COMMIT;
\* a statement that throws rolls the transaction back.
pgUpdateLeaderboard(st, f, psid) ==
    LET s1 == Stmt(st, st.db)
        s2 == Stmt(s1, [s1.db EXCEPT !.leaderboard =
                           UpsertLeaderboard(@, LeaderboardRow(f, psid))])
        s3 == Stmt(s2, [s2.db EXCEPT !.leaderboard = Trim(@)])
        s4 == Stmt(s3, s3.db)
    IN  IF s4.failed THEN [s4 EXCEPT !.db = st.db] ELSE s4

Exec(db, budget) ==
    [db |-> db, aq |-> NoAquarium, budget |-> budget, failed |-> FALSE,
     faults |-> 0]

NoResponse == [ok |-> FALSE, aquarium |-> NoAquarium]

\* A served request as the caller saw it: which request, when, what it asked
\* to unlock, whether the aquarium row existed before it, how many fish rows
\* the aquarium had before it and how many of those it removed, and how many
\* storage statements threw while it ran.
NoRequest ==
    [kind |-> "none", psid |-> "", time |-> 0, faults |-> 0,
     unlockables |-> [k \in {} |-> 0], existed |-> FALSE, before |-> 0,
     removed |-> 0]

IdleTxn == [pc |-> "idle", ins |-> {}, del |-> {}]

Noon == 12 * 60

StoreDb(db) ==
    /\ aquariums' = db.aquariums
    /\ fish' = db.fish
    /\ leaderboard' = db.leaderboard
    /\ nextFishId' = db.nextFishId
    /\ nextAquariumId' = db.nextAquariumId

FreshFish(type, time) ==
    [type |-> type, hunger |-> 0, x |-> 200, y |-> 200, last_fed |-> time,
     spawn_count |-> 0]

(***************************************************************************)
(* AquariumLogic: the engine, one operator per method.                     *)
(***************************************************************************)
SetAq(st, updates) == [st EXCEPT !.aq = Assign(@, updates)]

\* The world rectangle positions are clamped to.
WorldWidth == 1920
WorldHeight == 1080

\* A clamp that bounds a coordinate from above only.
clamp_UpperOnly(v, hi) == Min(hi, v)

\* Math.max(0, Math.min(hi, v))
clamp(v, hi) == Max(0, Min(hi, v))

\* The position spawnFish gives a new fish for Math.random() values
\* rx / RandomSteps and ry / RandomSteps: 200 + random * 1520 and
\* 200 + random * 680, rounded down.
spawnPosition(rx, ry) ==
    [x |-> 200 + (rx * 1520) \div RandomSteps,
     y |-> 200 + (ry * 680) \div RandomSteps]

\* spawnFish: addFish, push the row, updateAquarium(num_fish),
\* updateLeaderboard(row).
spawnFish(st, typeName, time) ==
    LET s1 == addFish(st, st.aq.id, FreshFish(typeName, time), time)
        row == CHOOSE f \in s1.db.fish : f.id = st.db.nextFishId
        s2 == SetAq(s1, [fish |-> Append(s1.aq.fish, row),
                         num_fish |-> Len(s1.aq.fish) + 1])
        s3 == Stmt(s2, updateAquarium(s2.db, s2.aq.psid,
                                      [num_fish |-> s2.aq.num_fish]))
    IN  IF st.failed THEN st
        ELSE IF s1.failed THEN s1
        ELSE updateLeaderboard(s3, row, s3.aq.psid)

\* spawnStarterFish: the first common species, or the first species; an
\* exception of spawnFish is caught and logged.
spawnStarterFish(st, cat, time) ==
    LET availableFish == getAllFishTypes(cat)
        commonFish == getFishByRarity(cat, "common")
    IN  IF st.failed \/ availableFish = <<>> THEN st
        ELSE LET starterFishType == IF Len(commonFish) > 0 THEN commonFish[1]
                                    ELSE availableFish[1]
             IN  [spawnFish(st, starterFishType, time) EXCEPT !.failed = FALSE]

\* The loop of updateFishStates over aquarium.fish, from index i on.
RECURSIVE UpdateFishLoop(_, _, _, _, _, _, _)
UpdateFishLoop(st, list, i, updatedFish, fishDied, cat, time) ==
    IF st.failed \/ i > Len(list)
    THEN [st |-> st, updatedFish |-> updatedFish, fishDied |-> fishDied]
    ELSE LET f == list[i]
         IN  IF ~getFishType(cat, f.type)
             THEN UpdateFishLoop(st, list, i + 1, updatedFish, fishDied, cat, time)
             ELSE
             LET fishType == FishDefs[f.type]
                 lastFed == IF f.last_fed = InvalidDate THEN time
                            ELSE f.last_fed
                 minutesSinceFed == time - lastFed
                 hungerRate == getHungerRate(fishType, isFishActive(fishType, time))
                 newHunger == Min(fishType.hungerThreshold,
                                  f.hunger + minutesSinceFed * hungerRate)
             IN  IF newHunger >= fishType.hungerThreshold
                 THEN UpdateFishLoop(removeFish(st, f.id), list, i + 1,
                                     updatedFish, TRUE, cat, time)
                 ELSE IF newHunger - f.hunger > 1 \/ f.hunger - newHunger > 1
                 THEN UpdateFishLoop(
                          Stmt(st, updateFish(st.db, f.id, [hunger |-> newHunger])),
                          list, i + 1,
                          Append(updatedFish, [f EXCEPT !.hunger = newHunger]),
                          fishDied, cat, time)
                 ELSE UpdateFishLoop(st, list, i + 1, Append(updatedFish, f),
                                     fishDied, cat, time)

\* The reset that leaves the feeding counter alone.
AllFishDiedReset_KeepFeedings == [tank_life_sec |-> 0, num_fish |-> 0]

\* What updateFishStates writes when the last fish has died.
AllFishDiedReset == [tank_life_sec |-> 0, num_fish |-> 0, total_feedings |-> 0]

updateFishStates(st, cat, time) ==
    LET r == UpdateFishLoop(st, st.aq.fish, 1, <<>>, FALSE, cat, time)
        s1 == SetAq(r.st, [fish |-> r.updatedFish,
                           num_fish |-> Len(r.updatedFish)])
    IN  IF r.st.failed THEN r.st
        ELSE IF r.fishDied /\ Len(r.updatedFish) = 0
        THEN LET s2 == Stmt(s1, updateAquarium(s1.db, s1.aq.psid,
                                                AllFishDiedReset))
             IN  IF s2.failed THEN s2 ELSE SetAq(s2, AllFishDiedReset)
        ELSE IF r.fishDied
        THEN Stmt(s1, updateAquarium(s1.db, s1.aq.psid,
                                     [num_fish |-> Len(r.updatedFish)]))
        ELSE s1

getAndUpdateAquariumState(db, psid, cat, time, budget) ==
    LET s0 == Stmt(Exec(db, budget), db)
        s1 == IF s0.failed THEN s0
              ELSE IF ~HasAquarium(db, psid) THEN createAquarium(s0, psid)
              ELSE updateFishStates([s0 EXCEPT !.aq = getAquarium(db, psid)],
                                    cat, time)
    IN  IF ~s1.failed /\ Len(s1.aq.fish) = 0
        THEN spawnStarterFish(s1, cat, time)
        ELSE s1

EmptyObject == [k \in {} |-> 0]

\* A search that falls back to the first fish of the list.
IndexOfFish_FirstIfMissing(fishSeq, id) ==
    IF \E i \in 1..Len(fishSeq) : fishSeq[i].id = id
    THEN CHOOSE i \in 1..Len(fishSeq) : fishSeq[i].id = id
    ELSE IF Len(fishSeq) > 0 THEN 1 ELSE 0

\* aquarium.fish.find(f => f.id === update.id), 0 when there is none.
IndexOfFish(fishSeq, id) ==
    IF \E i \in 1..Len(fishSeq) : fishSeq[i].id = id
    THEN CHOOSE i \in 1..Len(fishSeq) : fishSeq[i].id = id
    ELSE 0

\* The loop of updateFishData over the fish updates of a push, from index i
\* on; rnd[i] is the species selectRandomFish draws for update i.
\* A count that is never reset.
spawnCountAfterFeeding_NoReset(spawnCount, required) == spawnCount + 1

\* changes.spawn_count of a feeding for the fish's spawn_count and the
\* feedingsRequired of its spawn conditions.
spawnCountAfterFeeding(spawnCount, required) ==
    IF spawnCount + 1 >= required THEN 0 ELSE spawnCount + 1

RECURSIVE UpdateFishDataLoop(_, _, _, _, _, _)
UpdateFishDataLoop(st, fishUpdates, i, cat, time, rnd) ==
    IF st.failed \/ i > Len(fishUpdates) THEN st
    ELSE
    LET update == fishUpdates[i]
        idx == IndexOfFish(st.aq.fish, update.id)
    IN  IF idx = 0
        THEN UpdateFishDataLoop(st, fishUpdates, i + 1, cat, time, rnd)
        ELSE
        LET f == st.aq.fish[idx]
            hasPosition == {"x", "y"} \subseteq DOMAIN update
            hasHunger == "hunger" \in DOMAIN update
            feeding == /\ "fed" \in DOMAIN update
                       /\ update.fed
                       /\ getFishType(cat, f.type)
            \* changes.hunger || fish.hunger
            baseHunger == IF hasHunger /\ update.hunger # 0
                          THEN update.hunger ELSE f.hunger
            newSpawnCount == f.spawn_count + 1
            spawns == feeding /\ newSpawnCount >=
                          getSpawnConditions(f.type).feedingsRequired
            keys == (IF hasPosition THEN {"x", "y"} ELSE {})
                    \cup (IF hasHunger \/ feeding THEN {"hunger"} ELSE {})
                    \cup (IF feeding THEN {"last_fed", "spawn_count"} ELSE {})
            changes ==
                [k \in keys |->
                    CASE k = "x" -> clamp(update.x, WorldWidth)
                      [] k = "y" -> clamp(update.y, WorldHeight)
                      [] k = "hunger" ->
                            IF feeding THEN Max(0, baseHunger - Tenths(20))
                            ELSE update.hunger
                      [] k = "last_fed" -> time
                      [] k = "spawn_count" ->
                            spawnCountAfterFeeding(
                                f.spawn_count,
                                getSpawnConditions(f.type).feedingsRequired)]
            s1 == IF ~feeding THEN st
                  ELSE LET t1 == Stmt(st, updateAquarium(st.db, st.aq.psid,
                                   [total_feedings |-> st.aq.total_feedings + 1]))
                           t2 == IF t1.failed THEN t1
                                 ELSE SetAq(t1, [total_feedings |->
                                                   t1.aq.total_feedings + 1])
                       IN  IF spawns /\ rnd[i] \in selectRandomFish(cat)
                           THEN spawnFish(t2, rnd[i], time)
                           ELSE t2
            s2 == IF keys = {} THEN s1
                  ELSE Stmt(s1, updateFish(s1.db, f.id, changes))
            s3 == IF s2.failed \/ keys = {} THEN s2
                  ELSE [s2 EXCEPT !.aq.fish[idx] = Assign(@, changes)]
        IN  UpdateFishDataLoop(s3, fishUpdates, i + 1, cat, time, rnd)

updateFishData(st, fishUpdates, cat, time, rnd) ==
    UpdateFishDataLoop(st, fishUpdates, 1, cat, time, rnd)

updateUnlockables(st, unlockables) ==
    LET aq == st.aq
        castleKey == IF "castle" \in DOMAIN unlockables
                        /\ (aq.num_fish >= CastleThreshold \/ aq.castle_unlocked)
                     THEN {"castle_unlocked"} ELSE {}
        submarineKey == IF "submarine" \in DOMAIN unlockables
                           /\ (aq.num_fish >= SubmarineThreshold
                               \/ aq.submarine_unlocked)
                        THEN {"submarine_unlocked"} ELSE {}
        musicKey == IF "music" \in DOMAIN unlockables
                    THEN {"music_enabled"} ELSE {}
        keys == castleKey \cup submarineKey \cup musicKey
        updates ==
            [k \in keys |->
                CASE k = "castle_unlocked" ->
                        IF aq.num_fish >= CastleThreshold
                        THEN unlockables.castle ELSE FALSE
                  [] k = "submarine_unlocked" ->
                        IF aq.num_fish >= SubmarineThreshold
                        THEN unlockables.submarine ELSE FALSE
                  [] k = "music_enabled" -> unlockables.music]
    IN  IF st.failed \/ keys = {} THEN st
        ELSE Stmt(SetAq(st, updates), updateAquarium(st.db, aq.psid, updates))

\* for (const fish of aquarium.fish) updateLeaderboard(fish, psid)
RECURSIVE LeaderboardLoop(_, _)
LeaderboardLoop(st, i) ==
    IF st.failed \/ i > Len(st.aq.fish) THEN st
    ELSE LeaderboardLoop(updateLeaderboard(st, st.aq.fish[i], st.aq.psid), i + 1)

\* updates.meta carries tank_life_sec and food_level when the push has them,
\* updates.fish the fish updates, updates.unlockables the unlock requests.
\* saveAquariumState after the aquarium was fetched into st.aq.
ApplySave(st, psid, updates, cat, time, rnd) ==
    LET s1 == SetAq(st, updates.meta)
        s2 == IF DOMAIN updates.meta = {} THEN s1
              ELSE Stmt(s1, updateAquarium(s1.db, psid, updates.meta))
        s3 == updateFishData(s2, updates.fish, cat, time, rnd)
        s4 == updateUnlockables(s3, updates.unlockables)
    IN  LeaderboardLoop(s4, 1)

\* A save that creates the aquarium it does not find.
saveAquariumState_Creating(db, psid, updates, cat, time, rnd, budget) ==
    LET s0 == Stmt(Exec(db, budget), db)
        s1 == IF ~HasAquarium(db, psid) THEN createAquarium(s0, psid)
              ELSE [s0 EXCEPT !.aq = getAquarium(db, psid)]
    IN  IF s1.failed THEN s1
        ELSE ApplySave(s1, psid, updates, cat, time, rnd)

\* A save that brings the fish up to date before it applies the push.
saveAquariumState_CatchingUp(db, psid, updates, cat, time, rnd, budget) ==
    LET s0 == Stmt(Exec(db, budget), db)
    IN  IF s0.failed THEN s0
        ELSE IF ~HasAquarium(db, psid) THEN [s0 EXCEPT !.failed = TRUE]
        ELSE ApplySave(updateFishStates([s0 EXCEPT !.aq = getAquarium(db, psid)],
                                        cat, time),
                       psid, updates, cat, time, rnd)

saveAquariumState(db, psid, updates, cat, time, rnd, budget) ==
    LET s0 == Stmt(Exec(db, budget), db)
    IN  IF s0.failed THEN s0
        ELSE IF ~HasAquarium(db, psid) THEN [s0 EXCEPT !.failed = TRUE]
        ELSE ApplySave([s0 EXCEPT !.aq = getAquarium(db, psid)],
                       psid, updates, cat, time, rnd)

(***************************************************************************)
(* The browser client, as far as it decides what a push carries for a fish.*)
(***************************************************************************)
\* new Fish(data): the client's copy of a fish the server returned.
ClientFish(row) ==
    [id |-> row.id, type |-> row.type, hunger |-> row.hunger, x |-> row.x,
     y |-> row.y, lastFed |-> row.last_fed, spawnCount |-> row.spawn_count,
     justFed |-> FALSE]

\* seekFoodBehavior, the branch in which the fish reaches the food and eats.
seekFoodBehavior(cf, time) ==
    [cf EXCEPT !.hunger = Max(0, @ - Tenths(20)),
               !.lastFed = time,
               !.spawnCount = @ + 1,
               !.justFed = TRUE]

\* getServerData: hunger rounded to two decimals (exact for tenths), the
\* position rounded to whole pixels, and fed: true after a feeding.
getServerData(cf) ==
    LET data == [id |-> cf.id, type |-> cf.type, hunger |-> cf.hunger,
                 x |-> cf.x, y |-> cf.y, last_fed |-> cf.lastFed,
                 spawn_count |-> cf.spawnCount]
    IN  IF cf.justFed THEN data @@ [fed |-> TRUE] ELSE data

(***************************************************************************)
(* Spec: the engine serving one request at a time over the SQLite gateway  *)
(* (DB_CLIENT defaults to sqlite), with the clock advancing and the        *)
(* service being redeployed with another species catalog between requests. *)
(***************************************************************************)
\* Species of the fish an aquarium holds after its first feedings, in id order.
InitTypes == <<"Clownfish", "Betta", "Clownfish", "Betta">>

\* The database after aquarium p1 was loaded and its first fish was fed
\* until the aquarium held k fish and, after that, `fed` more times, all within
\* the first minute, and the decorations were switched as given.
InitDb(k, fed, castle, submarine) ==
    LET rows == {[id |-> i, aquarium_id |-> 1, type |-> InitTypes[i],
                  hunger |-> 0, x |-> 200, y |-> 200, last_fed |-> Noon,
                  spawn_count |-> IF i = 1 THEN fed ELSE 0,
                  created_at |-> Noon] : i \in 1..k}
    IN  [aquariums |-> {[NewAquariumRow(1, "p1") EXCEPT
                           !.num_fish = k,
                           !.total_feedings = feedingsRequired * (k - 1) + fed,
                           !.castle_unlocked = castle,
                           !.submarine_unlocked = submarine]},
         fish |-> rows,
         leaderboard |-> {LeaderboardRow(f, "p1") : f \in rows},
         nextFishId |-> k + 1,
         nextAquariumId |-> 2]

EmptyDb ==
    [aquariums |-> {}, fish |-> {}, leaderboard |-> {}, nextFishId |-> 1,
     nextAquariumId |-> 1]

\* The cached deployment before its first request: nothing cached, an empty
\* database, no response sent.
NoRedis == [store |-> [p \in {} |-> 0], db |-> EmptyDb, response |-> NoResponse]

InitDbs ==
    {EmptyDb,
     InitDb(1, 0, FALSE, FALSE),
     InitDb(1, feedingsRequired - 1, FALSE, FALSE),
     InitDb(CastleThreshold, 0, FALSE, FALSE),
     InitDb(CastleThreshold, 0, TRUE, FALSE),
     InitDb(SubmarineThreshold, 0, TRUE, TRUE)}

Init ==
    /\ catalog = {"Clownfish", "Betta"}
    /\ now = Noon
    /\ \E db \in InitDbs :
          /\ aquariums = db.aquariums
          /\ fish = db.fish
          /\ leaderboard = db.leaderboard
          /\ nextFishId = db.nextFishId
          /\ nextAquariumId = db.nextAquariumId
    /\ response = NoResponse
    /\ lastReq = NoRequest
    /\ steps = 0
    /\ txn = [c \in Callers |-> IdleTxn]
    /\ backend = "sqlite"
    /\ redis = NoRedis

\* What the client may report for one fish.
FishUpdatesFor(id) ==
    {[id |-> id, hunger |-> 0],
     [id |-> id, hunger |-> Tenths(60)],
     [id |-> id, hunger |-> 0, fed |-> TRUE],
     [id |-> id, hunger |-> Tenths(30), fed |-> TRUE],
     [id |-> id, fed |-> TRUE],
     [id |-> id, x |-> -5, y |-> 1100]}

\* The fish a client of psid addresses: the two oldest fish of its aquarium
\* and one id that is not a fish of its aquarium.
TargetIds(psid) ==
    LET own == {f.id : f \in {g \in fish : \E a \in aquariums :
                                  a.psid = psid /\ a.id = g.aquarium_id}}
        oldest == {i \in own : Cardinality({j \in own : j < i}) < 2}
        others == (1..nextFishId) \ own
    IN  oldest \cup {CHOOSE i \in others : \A j \in others : i <= j}

\* The pushes a client may send: fish updates alone (none, one, or the same
\* fish fed twice), the session counters alone, unlock requests alone, and a
\* feeding together with an unlock request.
SaveRequests(psid) ==
    LET ids == TargetIds(psid)
        updates == UNION {FishUpdatesFor(id) : id \in ids}
        unlocks == {[castle |-> TRUE],
                    [castle |-> TRUE, submarine |-> TRUE, music |-> FALSE],
                    [castle |-> FALSE, submarine |-> FALSE]}
    IN  {[meta |-> EmptyObject, fish |-> <<u>>, unlockables |-> EmptyObject]
            : u \in updates}
        \cup {[meta |-> EmptyObject,
               fish |-> <<[id |-> id, fed |-> TRUE], [id |-> id, fed |-> TRUE]>>,
               unlockables |-> EmptyObject] : id \in ids}
        \cup {[meta |-> [tank_life_sec |-> 120, food_level |-> 40],
               fish |-> <<>>, unlockables |-> EmptyObject]}
        \cup {[meta |-> EmptyObject, fish |-> <<>>, unlockables |-> u]
                 : u \in unlocks}
        \cup {[meta |-> EmptyObject, fish |-> <<[id |-> id, fed |-> TRUE]>>,
               unlockables |-> [castle |-> TRUE, submarine |-> TRUE]]
                 : id \in ids}

OwnFishIds(db, psid) ==
    {f.id : f \in {g \in db.fish : \E a \in db.aquariums :
                       a.psid = psid /\ a.id = g.aquarium_id}}

Finish(st, kind, psid, unlockables) ==
    /\ st.db.nextFishId <= MaxFishId + 1
    /\ StoreDb(st.db)
    /\ response' = IF st.failed THEN NoResponse
                   ELSE [ok |-> TRUE, aquarium |-> st.aq]
    /\ lastReq' = [kind |-> kind, psid |-> psid, time |-> now,
                   faults |-> st.faults, unlockables |-> unlockables,
                   existed |-> HasAquarium(DB, psid),
                   before |-> Cardinality(OwnFishIds(DB, psid)),
                   removed |-> Cardinality(OwnFishIds(DB, psid)
                                           \ {f.id : f \in st.db.fish})]
    /\ steps' = steps + 1
    /\ UNCHANGED <<catalog, now, txn, backend, redis>>

\* GET /aquarium/state
Load(psid) ==
    /\ steps < MaxSteps
    /\ Finish(getAndUpdateAquariumState(DB, psid, catalog, now, -1),
              "load", psid, EmptyObject)

\* POST /aquarium/state
Save(psid, updates, rnd) ==
    /\ steps < MaxSteps
    /\ Finish(saveAquariumState(DB, psid, updates, catalog, now, rnd, -1),
              "save", psid, updates.unlockables)

Tick(d) ==
    /\ now + d <= Noon + MaxElapsed
    /\ now' = now + d
    /\ UNCHANGED <<catalog, aquariums, fish, leaderboard, nextFishId,
                   nextAquariumId, response, lastReq, steps, txn, backend, redis>>

\* The service restarts with FISH_* definitions that no longer carry a species.
Redeploy(cat) ==
    /\ cat \subseteq catalog
    /\ cat # catalog
    /\ catalog' = cat
    /\ response' = NoResponse
    /\ lastReq' = NoRequest
    /\ UNCHANGED <<now, aquariums, fish, leaderboard, nextFishId,
                   nextAquariumId, steps, txn, backend, redis>>

Next ==
    \/ \E psid \in PSIDs : Load(psid)
    \/ \E psid \in PSIDs : \E updates \in SaveRequests(psid) :
          \E rnd \in [1..Len(updates.fish) -> catalog] :
              Save(psid, updates, rnd)
    \/ Tick(3)
    \/ \E cat \in Catalogs : Redeploy(cat)

Spec == Init /\ [][Next]_vars

(***************************************************************************)
(* SpecLB: the gateway's leaderboard operations called one after another.  *)
(***************************************************************************)
InitLB ==
    /\ catalog = {"Clownfish", "Betta"}
    /\ now = Noon
    /\ aquariums = {NewAquariumRow(1, "p1")}
    /\ fish = {}
    /\ leaderboard = {}
    /\ nextFishId = 1
    /\ nextAquariumId = 2
    /\ response = NoResponse
    /\ lastReq = NoRequest
    /\ steps = 0
    /\ txn = [c \in Callers |-> IdleTxn]
    /\ backend \in Backends
    /\ redis = NoRedis

\* A fish is spawned as spawnFish does it: addFish, then updateLeaderboard for
\* the new row.  The next fish is created a minute later.
LbSpawnFish ==
    /\ nextFishId <= MaxLbFish
    /\ LET s1 == addFish(Exec(DB, -1), 1, FreshFish("Clownfish", now), now)
           row == CHOOSE f \in s1.db.fish : f.id = nextFishId
       IN  StoreDb(IF backend = "sqlite"
                   THEN updateLeaderboard(s1, row, "p1").db
                   ELSE pgUpdateLeaderboard(s1, row, "p1").db)
    /\ now' = now + 1
    /\ lastReq' = [NoRequest EXCEPT !.kind = "updateLeaderboard"]
    /\ UNCHANGED <<catalog, response, steps, txn, backend, redis>>

LbUpdateLeaderboard(f) ==
    /\ StoreDb(IF backend = "sqlite"
               THEN updateLeaderboard(Exec(DB, -1), f, "p1").db
               ELSE pgUpdateLeaderboard(Exec(DB, -1), f, "p1").db)
    /\ lastReq' = [NoRequest EXCEPT !.kind = "updateLeaderboard"]
    /\ UNCHANGED <<catalog, now, response, steps, txn, backend, redis>>

LbRemoveFish(f) ==
    /\ StoreDb(removeFish(Exec(DB, -1), f.id).db)
    /\ lastReq' = [NoRequest EXCEPT !.kind = "removeFish"]
    /\ UNCHANGED <<catalog, now, response, steps, txn, backend, redis>>

NextLB ==
    \/ LbSpawnFish
    \/ \E f \in fish : LbUpdateLeaderboard(f)
    \/ \E f \in fish : LbRemoveFish(f)

SpecLB == InitLB /\ [][NextLB]_vars

(***************************************************************************)
(* SpecLBConc: two callers inside updateLeaderboard at the same time, one  *)
(* SQL statement per step.  The table starts one row short of the limit.   *)
(*   sqlite:   every statement commits by itself; the trim is issued from  *)
(*             the callback of the upsert.                                 *)
(*   postgres: BEGIN .. COMMIT at the default isolation level, READ        *)
(*             COMMITTED: a statement sees the rows committed when it      *)
(*             starts and the rows its own transaction wrote.              *)
(***************************************************************************)
InitLBConc ==
    LET n == LeaderboardLimit - 1
        rows == {[id |-> i, aquarium_id |-> 1, type |-> "Clownfish",
                  hunger |-> 0, x |-> 200, y |-> 200, last_fed |-> Noon + i,
                  spawn_count |-> 0, created_at |-> Noon + i] : i \in 1..n}
    IN  /\ catalog = {"Clownfish", "Betta"}
        /\ now = Noon + n
        /\ aquariums = {NewAquariumRow(1, "p1")}
        /\ fish = rows
        /\ leaderboard = {LeaderboardRow(f, "p1") : f \in rows}
        /\ nextFishId = n + 1
        /\ nextAquariumId = 2
        /\ response = NoResponse
        /\ lastReq = NoRequest
        /\ steps = 0
        /\ txn = [c \in Callers |-> IdleTxn]
        /\ backend \in Backends
        /\ redis = NoRedis

\* addFish by some request; the clock may or may not have moved on.
ConcAddFish(d) ==
    /\ nextFishId <= MaxLbFish
    /\ StoreDb(addFish(Exec(DB, -1), 1, FreshFish("Clownfish", now + d),
                       now + d).db)
    /\ now' = now + d
    /\ UNCHANGED <<catalog, response, lastReq, steps, txn, backend, redis>>

SqliteUpsert(c, f) ==
    /\ backend = "sqlite"
    /\ txn[c].pc = "idle"
    /\ leaderboard' = UpsertLeaderboard(leaderboard, LeaderboardRow(f, "p1"))
    /\ txn' = [txn EXCEPT ![c].pc = "trim"]
    /\ UNCHANGED <<catalog, now, aquariums, fish, nextFishId, nextAquariumId,
                   response, lastReq, steps, backend, redis>>

SqliteTrim(c) ==
    /\ backend = "sqlite"
    /\ txn[c].pc = "trim"
    /\ \E K \in TrimResults(leaderboard) : leaderboard' = K
    /\ txn' = [txn EXCEPT ![c] = IdleTxn]
    /\ UNCHANGED <<catalog, now, aquariums, fish, nextFishId, nextAquariumId,
                   response, lastReq, steps, backend, redis>>

\* BEGIN and the upsert.  An insert of a key that another open transaction
\* has inserted or deleted waits for that transaction.
PgUpsert(c, f) ==
    /\ backend = "postgres"
    /\ txn[c].pc = "idle"
    /\ \A o \in Callers \ {c} :
           \A r \in txn[o].ins \cup txn[o].del : r.fish_id # f.id
    /\ txn' = [txn EXCEPT ![c].pc = "trim",
                          ![c].ins = UpsertLeaderboard(leaderboard,
                                         LeaderboardRow(f, "p1")) \ leaderboard]
    /\ UNCHANGED <<catalog, now, aquariums, fish, leaderboard, nextFishId,
                   nextAquariumId, response, lastReq, steps, backend, redis>>

\* The trim sees the committed rows and the row of its own transaction; a
\* delete of a row that another open transaction has deleted waits.
PgTrim(c) ==
    /\ backend = "postgres"
    /\ txn[c].pc = "trim"
    /\ LET visible == leaderboard \cup txn[c].ins
       IN  \E K \in TrimResults(visible) :
              /\ \A o \in Callers \ {c} : txn[o].del \cap (visible \ K) = {}
              /\ txn' = [txn EXCEPT ![c].pc = "commit",
                                    ![c].ins = @ \cap K,
                                    ![c].del = leaderboard \ K]
    /\ UNCHANGED <<catalog, now, aquariums, fish, leaderboard, nextFishId,
                   nextAquariumId, response, lastReq, steps, backend, redis>>

PgCommit(c) ==
    /\ backend = "postgres"
    /\ txn[c].pc = "commit"
    /\ leaderboard' = (leaderboard \ txn[c].del) \cup txn[c].ins
    /\ txn' = [txn EXCEPT ![c] = IdleTxn]
    /\ UNCHANGED <<catalog, now, aquariums, fish, nextFishId, nextAquariumId,
                   response, lastReq, steps, backend, redis>>

NextLBConc ==
    \/ \E d \in {0, 1} : ConcAddFish(d)
    \/ \E c \in Callers, f \in fish : SqliteUpsert(c, f)
    \/ \E c \in Callers : SqliteTrim(c)
    \/ \E c \in Callers, f \in fish : PgUpsert(c, f)
    \/ \E c \in Callers : PgTrim(c)
    \/ \E c \in Callers : PgCommit(c)

SpecLBConc == InitLBConc /\ [][NextLBConc]_vars

AllCallersDone == \A c \in Callers : txn[c].pc = "idle"

\* C1: under any interleaving of concurrent updateLeaderboard calls the
\* committed table never holds more than 10 rows: every insert is committed
\* together with its trim, so in particular the table holds at most 10 rows
\* once all calls have completed.
C1_ConcurrentRecordAndTrim == Cardinality(leaderboard) <= LeaderboardLimit

\* The first half of C1 alone: at most 10 rows once every call has completed.
C1_BoundWhenAllDone ==
    AllCallersDone => Cardinality(leaderboard) <= LeaderboardLimit

\* C2: in any sequential history of updateLeaderboard and removeFish calls
\* the table holds at most 10 rows after every completed updateLeaderboard.
C2_SequentialBound ==
    lastReq.kind = "updateLeaderboard" =>
        Cardinality(leaderboard) <= LeaderboardLimit

\* An updateLeaderboard call has just trimmed an eleventh row away: the table
\* is full and an existing fish row is missing from it.
C2_Witness ==
    /\ lastReq.kind = "updateLeaderboard"
    /\ Cardinality(leaderboard) = LeaderboardLimit
    /\ Cardinality(fish) > LeaderboardLimit

(***************************************************************************)
(* SpecFail: Spec with requests during which one storage statement throws  *)
(* after k statements of the request have succeeded.                       *)
(***************************************************************************)
LoadFailing(psid, k) ==
    /\ steps < MaxSteps
    /\ Finish(getAndUpdateAquariumState(DB, psid, catalog, now, k),
              "load", psid, EmptyObject)
    /\ lastReq'.faults > 0

SaveFailing(psid, updates, rnd, k) ==
    /\ steps < MaxSteps
    /\ Finish(saveAquariumState(DB, psid, updates, catalog, now, rnd, k),
              "save", psid, updates.unlockables)
    /\ lastReq'.faults > 0

NextFail ==
    \/ \E psid \in PSIDs : Load(psid)
    \/ \E psid \in PSIDs : \E updates \in SaveRequests(psid) :
          \E rnd \in [1..Len(updates.fish) -> catalog] :
              Save(psid, updates, rnd)
    \/ Tick(3)
    \/ \E cat \in Catalogs : Redeploy(cat)
    \/ \E psid \in PSIDs : \E k \in 0..MaxFailAt : LoadFailing(psid, k)
    \/ \E psid \in PSIDs : \E updates \in SaveRequests(psid) :
          \E rnd \in [1..Len(updates.fish) -> catalog] :
              \E k \in 0..MaxFailAt : SaveFailing(psid, updates, rnd, k)

SpecFail == Init /\ [][NextFail]_vars


(***************************************************************************)
(* The engine with the read-through cache (getAquariumState /              *)
(* updateAquariumState over redisClient and AquariumDB).  The in-memory    *)
(* aquarium of this engine carries the columns AquariumDB.getAquarium      *)
(* selects.                                                                *)
(***************************************************************************)
FishView(row) ==
    [id |-> row.id, type |-> row.type, hunger |-> row.hunger, x |-> row.x,
     y |-> row.y, last_fed |-> row.last_fed, spawn_count |-> row.spawn_count]

AquariumView(row, fishSeq) ==
    [id |-> row.id, psid |-> row.psid, tank_life_sec |-> row.tank_life_sec,
     num_fish |-> row.num_fish, total_feedings |-> row.total_feedings,
     castle_unlocked |-> row.castle_unlocked,
     submarine_unlocked |-> row.submarine_unlocked,
     music_enabled |-> row.music_enabled, fish |-> fishSeq]

RECURSIVE MapFishView(_)
MapFishView(rows) ==
    IF rows = <<>> THEN <<>>
    ELSE <<FishView(Head(rows))>> \o MapFishView(Tail(rows))

\* AquariumDB.getAquarium
dbGetAquarium(db, psid) ==
    LET row == CHOOSE a \in db.aquariums : a.psid = psid
    IN  AquariumView(row,
            MapFishView(SortById({f \in db.fish : f.aquarium_id = row.id})))

\* AquariumDB.createAquarium
dbCreateAquarium(st, psid) ==
    LET s1 == Stmt(st, InsertAquarium(st.db, psid))
    IN  IF s1.failed THEN s1
        ELSE [s1 EXCEPT !.aq =
                 AquariumView(NewAquariumRow(st.db.nextAquariumId, psid), <<>>)]

\* redisClient.getAquarium: the value under psid:<psid>:aquarium while the
\* client is enabled and the key has not expired.
redisHit(store, enabled, psid, time) ==
    /\ enabled
    /\ psid \in DOMAIN store
    /\ time < store[psid].expires

\* redisClient.setAquarium: SETEX of the JSON text of the aquarium.
redisSetAquarium(store, enabled, psid, aquarium, time) ==
    IF ~enabled THEN store
    ELSE [p \in DOMAIN store \cup {psid} |->
             IF p = psid
             THEN [value |-> aquarium, expires |-> time + CacheTtl]
             ELSE store[p]]

\* spawnFish of the cached engine: addFish returns the id of the new row.
cachedSpawnFish(st, typeName, time) ==
    LET s1 == Stmt(st, InsertFish(st.db, st.aq.id, FreshFish(typeName, time),
                                  time))
        newFish == FreshFish(typeName, time) @@ [id |-> st.db.nextFishId]
        s2 == SetAq(s1, [fish |-> Append(s1.aq.fish, FishView(newFish)),
                         num_fish |-> Len(s1.aq.fish) + 1])
    IN  IF st.failed THEN st
        ELSE IF s1.failed THEN s1
        ELSE Stmt(s2, updateAquarium(s2.db, s2.aq.psid,
                                     [num_fish |-> s2.aq.num_fish]))

cachedSpawnStarterFish(st, cat, time) ==
    LET availableFish == getAllFishTypes(cat)
        commonFish == getFishByRarity(cat, "common")
    IN  IF st.failed \/ availableFish = <<>> THEN st
        ELSE LET starterFishType == IF Len(commonFish) > 0 THEN commonFish[1]
                                    ELSE availableFish[1]
             IN  [cachedSpawnFish(st, starterFishType, time)
                     EXCEPT !.failed = FALSE]

\* The loop of updateFishStates of the cached engine.  redisClient.removeFish
\* deletes the key psid:<psid>:fish:<id>, which nothing reads.
RECURSIVE CachedUpdateFishLoop(_, _, _, _, _, _, _)
CachedUpdateFishLoop(st, list, i, updatedFish, fishDied, cat, time) ==
    IF st.failed \/ i > Len(list)
    THEN [st |-> st, updatedFish |-> updatedFish, fishDied |-> fishDied]
    ELSE LET f == list[i]
         IN  IF ~getFishType(cat, f.type)
             THEN CachedUpdateFishLoop(st, list, i + 1, updatedFish, fishDied,
                                       cat, time)
             ELSE
             LET fishType == FishDefs[f.type]
                 minutesSinceFed == time - f.last_fed
                 hungerRate == getHungerRate(fishType, isFishActive(fishType, time))
                 newHunger == Min(fishType.hungerThreshold,
                                  f.hunger + minutesSinceFed * hungerRate)
             IN  IF newHunger >= fishType.hungerThreshold
                 THEN CachedUpdateFishLoop(Stmt(st, DeleteFish(st.db, f.id)),
                                           list, i + 1, updatedFish, TRUE,
                                           cat, time)
                 ELSE IF newHunger - f.hunger > 1 \/ f.hunger - newHunger > 1
                 THEN CachedUpdateFishLoop(
                          Stmt(st, updateFish(st.db, f.id, [hunger |-> newHunger])),
                          list, i + 1,
                          Append(updatedFish, [f EXCEPT !.hunger = newHunger]),
                          fishDied, cat, time)
                 ELSE CachedUpdateFishLoop(st, list, i + 1,
                                           Append(updatedFish, f), fishDied,
                                           cat, time)

\* updateFishStates of the cached engine after its loop returned r.
cachedAfterFishLoop(r) ==
    LET s1 == SetAq(r.st, [fish |-> r.updatedFish,
                           num_fish |-> Len(r.updatedFish)])
    IN  IF r.st.failed THEN r.st
        ELSE IF r.fishDied /\ Len(r.updatedFish) = 0
        THEN LET s2 == Stmt(s1, updateAquarium(s1.db, s1.aq.psid,
                                    [tank_life_sec |-> 0, num_fish |-> 0]))
             IN  IF s2.failed THEN s2 ELSE SetAq(s2, [tank_life_sec |-> 0])
        ELSE IF r.fishDied
        THEN Stmt(s1, updateAquarium(s1.db, s1.aq.psid,
                                     [num_fish |-> Len(r.updatedFish)]))
        ELSE s1

cachedUpdateFishStates(st, cat, time) ==
    cachedAfterFishLoop(
        CachedUpdateFishLoop(st, st.aq.fish, 1, <<>>, FALSE, cat, time))

\* getAquariumState: the cached aquarium when there is one; otherwise the
\* database, catch-up and setAquarium; then the starter fish for an aquarium
\* without fish.  The result is the execution state and the cache.
\* getAquariumState from the point where the aquarium is in s1.aq.
cachedAfterFetch(s1, hit, store, enabled, psid, cat, time) ==
    [st |-> IF Len(s1.aq.fish) = 0 THEN cachedSpawnStarterFish(s1, cat, time)
            ELSE s1,
     store |-> IF hit THEN store
               ELSE redisSetAquarium(store, enabled, psid, s1.aq, time)]

getAquariumState(db, store, enabled, psid, cat, time) ==
    LET hit == redisHit(store, enabled, psid, time)
        s0 == Exec(db, -1)
    IN  cachedAfterFetch(
            IF hit THEN [s0 EXCEPT !.aq = store[psid].value]
            ELSE IF ~HasAquarium(db, psid) THEN dbCreateAquarium(s0, psid)
            ELSE cachedUpdateFishStates(
                     [s0 EXCEPT !.aq = dbGetAquarium(db, psid)], cat, time),
            hit, store, enabled, psid, cat, time)

\* The loop of updateFishData of the cached engine: the position, and a
\* feeding that takes 20 off the hunger the server holds.
RECURSIVE CachedUpdateFishDataLoop(_, _, _, _, _, _)
CachedUpdateFishDataLoop(st, fishUpdates, i, cat, time, rnd) ==
    IF st.failed \/ i > Len(fishUpdates) THEN st
    ELSE
    LET update == fishUpdates[i]
        idx == IndexOfFish(st.aq.fish, update.id)
    IN  IF idx = 0
        THEN CachedUpdateFishDataLoop(st, fishUpdates, i + 1, cat, time, rnd)
        ELSE
        LET f == st.aq.fish[idx]
            hasPosition == {"x", "y"} \subseteq DOMAIN update
            feeding == /\ "fed" \in DOMAIN update
                       /\ update.fed
                       /\ getFishType(cat, f.type)
            fedHunger == Max(0, f.hunger - Tenths(20))
            counts == feeding /\ fedHunger <= Tenths(10)
            newSpawnCount == f.spawn_count + 1
            spawns == counts /\ newSpawnCount >=
                          getSpawnConditions(f.type).feedingsRequired
            keys == (IF hasPosition THEN {"x", "y"} ELSE {})
                    \cup (IF feeding THEN {"hunger", "last_fed"} ELSE {})
                    \cup (IF counts THEN {"spawn_count"} ELSE {})
            changes ==
                [k \in keys |->
                    CASE k = "x" -> Max(0, Min(1920, update.x))
                      [] k = "y" -> Max(0, Min(1080, update.y))
                      [] k = "hunger" -> fedHunger
                      [] k = "last_fed" -> time
                      [] k = "spawn_count" ->
                            IF spawns THEN 0 ELSE newSpawnCount]
            s1 == IF spawns THEN cachedSpawnFish(st, rnd[i], time) ELSE st
            s2 == IF keys = {} THEN s1
                  ELSE Stmt(s1, updateFish(s1.db, f.id, changes))
            s3 == IF s2.failed \/ keys = {} THEN s2
                  ELSE [s2 EXCEPT !.aq.fish[idx] = Assign(@, changes)]
        IN  CachedUpdateFishDataLoop(s3, fishUpdates, i + 1, cat, time, rnd)

\* updateAquariumState: getAquariumState, the session counter, the fish
\* updates, the unlock requests, then setAquarium.
\* The end of updateAquariumState: setAquarium of the updated aquarium.
cachedAfterUpdate(s3, store, enabled, psid, time) ==
    [st |-> s3, store |-> redisSetAquarium(store, enabled, psid, s3.aq, time)]

\* updateAquariumState from the point where getAquariumState returned r.
cachedApplyUpdates(r, enabled, psid, updates, cat, time, rnd) ==
    LET hasLife == "tank_life_sec" \in DOMAIN updates.meta
        s1 == IF ~hasLife THEN r.st
              ELSE SetAq(Stmt(r.st, updateAquarium(r.st.db, psid,
                              [tank_life_sec |-> updates.meta.tank_life_sec])),
                         [tank_life_sec |-> updates.meta.tank_life_sec])
    IN  cachedAfterUpdate(
            updateUnlockables(
                CachedUpdateFishDataLoop(s1, updates.fish, 1, cat, time, rnd),
                updates.unlockables),
            r.store, enabled, psid, time)

updateAquariumState(db, store, enabled, psid, updates, cat, time, rnd) ==
    cachedApplyUpdates(getAquariumState(db, store, enabled, psid, cat, time),
                       enabled, psid, updates, cat, time, rnd)

(***************************************************************************)
(* SpecCache: two deployments of the cached engine receive the same        *)
(* requests at the same times.  The one without Redis keeps its database   *)
(* in the tables and its answer in response; the one with USE_REDIS=true   *)
(* keeps its cache, database and answer in redis.                          *)
(***************************************************************************)
InitCache ==
    /\ catalog = {"Clownfish", "Betta"}
    /\ now = Noon
    /\ aquariums = {}
    /\ fish = {}
    /\ leaderboard = {}
    /\ nextFishId = 1
    /\ nextAquariumId = 1
    /\ response = NoResponse
    /\ lastReq = NoRequest
    /\ steps = 0
    /\ txn = [c \in Callers |-> IdleTxn]
    /\ backend = "sqlite"
    /\ redis = NoRedis

\* Both deployments have answered the request.
CacheFinish(plain, cached, kind, psid) ==
    /\ plain.st.db.nextFishId <= MaxFishId + 1
    /\ cached.st.db.nextFishId <= MaxFishId + 1
    /\ StoreDb(plain.st.db)
    /\ response' = [ok |-> TRUE, aquarium |-> plain.st.aq]
    /\ redis' = [store |-> cached.store, db |-> cached.st.db,
                 response |-> [ok |-> TRUE, aquarium |-> cached.st.aq]]
    /\ lastReq' = [NoRequest EXCEPT !.kind = kind, !.psid = psid, !.time = now]
    /\ steps' = steps + 1
    /\ UNCHANGED <<catalog, now, txn, backend>>

CacheLoad(psid) ==
    /\ steps < MaxCacheSteps
    /\ \E plain \in {getAquariumState(DB, redis.store, FALSE, psid, catalog,
                                        now)} :
       \E cached \in {getAquariumState(redis.db, redis.store, TRUE, psid,
                                         catalog, now)} :
           CacheFinish(plain, cached, "load", psid)

CacheSave(psid, updates, rnd) ==
    /\ steps < MaxCacheSteps
    /\ \E plain \in {updateAquariumState(DB, redis.store, FALSE, psid,
                                           updates, catalog, now, rnd)} :
       \E cached \in {updateAquariumState(redis.db, redis.store, TRUE, psid,
                                            updates, catalog, now, rnd)} :
           CacheFinish(plain, cached, "save", psid)

NextCache ==
    \/ \E psid \in PSIDs : CacheLoad(psid)
    \/ \E psid \in PSIDs : \E updates \in SaveRequests(psid) :
          \E rnd \in [1..Len(updates.fish) -> catalog] :
              CacheSave(psid, updates, rnd)
    \/ Tick(3)

SpecCache == InitCache /\ [][NextCache]_vars

(***************************************************************************)
(* SpecPush: pushes alone, the clock advancing between them; lastReq keeps *)
(* the fish updates of the push that was served.                           *)
(***************************************************************************)
FinishPush(st, psid, updates) ==
    /\ st.db.nextFishId <= MaxFishId + 1
    /\ StoreDb(st.db)
    /\ response' = IF st.failed THEN NoResponse
                   ELSE [ok |-> TRUE, aquarium |-> st.aq]
    /\ lastReq' = [kind |-> "save", psid |-> psid, time |-> now,
                   fish |-> updates.fish]
    /\ steps' = steps + 1
    /\ UNCHANGED <<catalog, now, txn, backend, redis>>

\* POST /aquarium/state
Push(psid, updates, rnd) ==
    /\ steps < MaxPushSteps
    /\ FinishPush(saveAquariumState(DB, psid, updates, catalog, now, rnd, -1),
                  psid, updates)

NextPush ==
    \/ \E psid \in PSIDs : \E updates \in SaveRequests(psid) :
          \E rnd \in [1..Len(updates.fish) -> catalog] :
              Push(psid, updates, rnd)
    \/ Tick(3)

SpecPush == Init /\ [][NextPush]_vars

(***************************************************************************)
(* SpecTwoTanks: pushes of two clients, each with an aquarium of its own;  *)
(* a push names fish of the client's aquarium and a fish of the other one. *)
(***************************************************************************)
\* The database with a second aquarium, of p2, holding one Betta.
TwoTanks(db) ==
    LET row == [id |-> db.nextFishId, aquarium_id |-> db.nextAquariumId,
                type |-> "Betta", hunger |-> 0, x |-> 300, y |-> 300,
                last_fed |-> Noon, spawn_count |-> 0, created_at |-> Noon]
    IN  [aquariums |-> db.aquariums \cup
                       {[NewAquariumRow(db.nextAquariumId, "p2") EXCEPT
                            !.num_fish = 1]},
         fish |-> db.fish \cup {row},
         leaderboard |-> db.leaderboard \cup {LeaderboardRow(row, "p2")},
         nextFishId |-> db.nextFishId + 1,
         nextAquariumId |-> db.nextAquariumId + 1]

InitTwoTanks ==
    /\ catalog = {"Clownfish", "Betta"}
    /\ now = Noon
    /\ \E db \in {TwoTanks(InitDb(1, feedingsRequired - 1, FALSE, FALSE)),
                   TwoTanks(InitDb(CastleThreshold, 0, FALSE, FALSE))} :
          /\ aquariums = db.aquariums
          /\ fish = db.fish
          /\ leaderboard = db.leaderboard
          /\ nextFishId = db.nextFishId
          /\ nextAquariumId = db.nextAquariumId
    /\ response = NoResponse
    /\ lastReq = NoRequest
    /\ steps = 0
    /\ txn = [c \in Callers |-> IdleTxn]
    /\ backend = "sqlite"
    /\ redis = NoRedis

SpecTwoTanks == InitTwoTanks /\ [][NextPush]_vars

(***************************************************************************)
(* SpecSelect: selectRandomFish applied to a tank life and to the values   *)
(* of its two random draws.                                                *)
(***************************************************************************)
InitSelect ==
    /\ catalog \in Catalogs
    /\ now = Noon
    /\ aquariums = {}
    /\ fish = {}
    /\ leaderboard = {}
    /\ nextFishId = 1
    /\ nextAquariumId = 1
    /\ response = NoResponse
    /\ \E h \in 0..MaxTankLifeHours : \E r1, r2 \in 0..(RandomSteps - 1) :
          lastReq = [kind |-> "drawing", tankLifeHours |-> h,
                     random1 |-> r1, random2 |-> r2]
    /\ steps = 0
    /\ txn = [c \in Callers |-> IdleTxn]
    /\ backend = "sqlite"
    /\ redis = NoRedis

\* One call of selectRandomFish; the answer keeps the weights it drew with.
Select ==
    /\ lastReq.kind = "drawing"
    /\ lastReq' = [lastReq EXCEPT !.kind = "drawn"]
    /\ response' =
          [ok |-> TRUE,
           weights |-> normalizedWeights(adjustedWeights(lastReq.tankLifeHours)),
           rarity |-> selectedRarity(
                          normalizedWeights(
                              adjustedWeights(lastReq.tankLifeHours)),
                          lastReq.random1),
           species |-> selectRandomFishDraw(catalog, lastReq.tankLifeHours,
                                            lastReq.random1, lastReq.random2)]
    /\ UNCHANGED <<catalog, now, aquariums, fish, leaderboard, nextFishId,
                   nextAquariumId, steps, txn, backend, redis>>

NextSelect == Select

SpecSelect == InitSelect /\ [][NextSelect]_vars

(***************************************************************************)
(* SpecSessionLB: the session-keyed leaderboard of db/sqlite.js and        *)
(* db/setup.js, one row per session, updateLeaderboard called one call     *)
(* after another.  The table starts with nine other sessions in it, so     *)
(* that the trim to ten rows acts once both clients have a row.            *)
(***************************************************************************)
SessionRow(psid, tank_life_sec, num_fish, total_feedings) ==
    [psid |-> psid, tank_life_sec |-> tank_life_sec, num_fish |-> num_fish,
     total_feedings |-> total_feedings]

\* INSERT INTO leaderboard ... ON CONFLICT(psid) DO UPDATE SET
\*   tank_life_sec = excluded.tank_life_sec, num_fish = excluded.num_fish,
\*   total_feedings = excluded.total_feedings
SessionUpsert(lb, row) == {r \in lb : r.psid # row.psid} \cup {row}

\* DELETE FROM leaderboard WHERE psid NOT IN
\*   (SELECT psid FROM leaderboard ORDER BY tank_life_sec DESC LIMIT 10):
\* the tables the statement may leave; rows of equal tank_life_sec at the
\* cut are kept in any choice.
SessionTrimResults(lb) ==
    IF Cardinality(lb) <= LeaderboardLimit THEN {lb}
    ELSE {K \in SUBSET lb :
            /\ Cardinality(K) = LeaderboardLimit
            /\ \A k \in K : \A d \in lb \ K :
                   k.tank_life_sec >= d.tank_life_sec}

\* The sessions that hold a row before the two clients report.
OtherSessions == <<"o1", "o2", "o3", "o4", "o5", "o6", "o7", "o8", "o9">>

\* The tank lives the two clients report, in seconds.
ReportedTankLives == {45, 75, 105}

InitSessionLB ==
    /\ catalog = {"Clownfish", "Betta"}
    /\ now = Noon
    /\ aquariums = {NewAquariumRow(1, "p1"), NewAquariumRow(2, "p2")}
    /\ fish = {}
    /\ leaderboard = {SessionRow(OtherSessions[i], 60 * i, 1, 0)
                         : i \in 1..Len(OtherSessions)}
    /\ nextFishId = 1
    /\ nextAquariumId = 3
    /\ response = NoResponse
    /\ lastReq = [kind |-> "none", psid |-> "", tank_life_sec |-> 0]
    /\ steps = 0
    /\ txn = [c \in Callers |-> IdleTxn]
    /\ backend \in Backends
    /\ redis = NoRedis

SessionCall(psid, tank_life_sec, num_fish, total_feedings) ==
    /\ \E K \in SessionTrimResults(
                    SessionUpsert(leaderboard,
                        SessionRow(psid, tank_life_sec, num_fish,
                                   total_feedings))) :
          leaderboard' = K
    /\ lastReq' = [kind |-> "updateLeaderboard", psid |-> psid,
                   tank_life_sec |-> tank_life_sec]
    /\ steps' = steps + 1
    /\ UNCHANGED <<catalog, now, aquariums, fish, nextFishId, nextAquariumId,
                   response, txn, backend, redis>>

\* SqliteDB.updateLeaderboard(psid, tank_life_sec, num_fish, total_feedings):
\* the upsert, then the trim from its callback.
SqliteSessionUpdateLeaderboard(psid, tank_life_sec, num_fish, total_feedings) ==
    /\ backend = "sqlite"
    /\ steps < MaxSessionSteps
    /\ SessionCall(psid, tank_life_sec, num_fish, total_feedings)

\* PostgresDB.updateLeaderboard(psid, tank_life_sec, num_fish,
\* total_feedings): BEGIN, the upsert, the trim, COMMIT.
PgSessionUpdateLeaderboard(psid, tank_life_sec, num_fish, total_feedings) ==
    /\ backend = "postgres"
    /\ steps < MaxSessionSteps
    /\ SessionCall(psid, tank_life_sec, num_fish, total_feedings)

NextSessionLB ==
    \/ \E psid \in PSIDs : \E t \in ReportedTankLives : \E n \in 1..2 :
          SqliteSessionUpdateLeaderboard(psid, t, n, 0)
    \/ \E psid \in PSIDs : \E t \in ReportedTankLives : \E n \in 1..2 :
          PgSessionUpdateLeaderboard(psid, t, n, 0)

SpecSessionLB == InitSessionLB /\ [][NextSessionLB]_vars

(***************************************************************************)
(* SpecCacheFault: fetches of the cached engine while the cache is         *)
(* disabled (USE_REDIS off, or the client has seen an error or the end of  *)
(* its connection), up, or failing (enabled, and every command rejects).   *)
(* redis.store is the cache, redis.mode its condition.                     *)
(***************************************************************************)
RedisModes == {"disabled", "up", "failing"}

\* A client whose getAquarium lets the rejection of the command through.
redisGetAquarium_Raising(store, mode, psid, time) ==
    [raised |-> mode = "failing",
     hit |-> mode = "up" /\ redisHit(store, TRUE, psid, time)]

\* RedisClient.getAquarium: null when not enabled, null from the catch
\* when the command rejects, the parsed value otherwise.
redisGetAquarium(store, mode, psid, time) ==
    [raised |-> FALSE,
     hit |-> mode = "up" /\ redisHit(store, TRUE, psid, time)]

\* RedisClient.setAquarium: false when not enabled, false from the catch
\* when the command rejects, true after SETEX.
redisSetAquariumResult(store, mode, psid, aquarium, time) ==
    [raised |-> FALSE,
     ok |-> mode = "up",
     store |-> redisSetAquarium(store, mode = "up", psid, aquarium, time)]

\* getAquariumState with the cache in the given condition; an exception of
\* the cache client would leave the try block before the database is read.
getAquariumStateVia(db, store, mode, psid, cat, time) ==
    IF redisGetAquarium(store, mode, psid, time).raised
    THEN [st |-> [Exec(db, -1) EXCEPT !.failed = TRUE], store |-> store]
    ELSE getAquariumState(db, store, mode = "up", psid, cat, time)

InitCacheFault ==
    /\ catalog = {"Clownfish", "Betta"}
    /\ now = Noon
    /\ aquariums = {}
    /\ fish = {}
    /\ leaderboard = {}
    /\ nextFishId = 1
    /\ nextAquariumId = 1
    /\ response = NoResponse
    /\ lastReq = [kind |-> "none", psid |-> "", time |-> 0, mode |-> "none",
                  read |-> FALSE, write |-> FALSE]
    /\ steps = 0
    /\ txn = [c \in Callers |-> IdleTxn]
    /\ backend = "sqlite"
    /\ \E mode \in RedisModes :
          redis = [store |-> [p \in {} |-> 0], mode |-> mode]

\* The connect, error and end events of the client, and commands starting
\* or ceasing to reject.
RedisEvent(mode) ==
    /\ mode # redis.mode
    /\ redis' = [redis EXCEPT !.mode = mode]
    /\ UNCHANGED <<catalog, now, aquariums, fish, leaderboard, nextFishId,
                   nextAquariumId, response, lastReq, steps, txn, backend>>

FaultFinish(r, psid) ==
    /\ r.st.db.nextFishId <= MaxFishId + 1
    /\ StoreDb(r.st.db)
    /\ response' = IF r.st.failed THEN NoResponse
                   ELSE [ok |-> TRUE, aquarium |-> r.st.aq]
    /\ redis' = [redis EXCEPT !.store = r.store]
    /\ lastReq' = [kind |-> "load", psid |-> psid, time |-> now,
                   mode |-> redis.mode,
                   read |-> redisGetAquarium(redis.store, redis.mode, psid,
                                             now).hit,
                   write |-> redisSetAquariumResult(redis.store, redis.mode,
                                 psid, r.st.aq, now).ok]
    /\ steps' = steps + 1
    /\ UNCHANGED <<catalog, now, txn, backend>>

\* GET /aquarium/state of the cached engine.
FaultLoad(psid) ==
    /\ steps < MaxCacheSteps
    /\ \E r \in {getAquariumStateVia(DB, redis.store, redis.mode, psid,
                                      catalog, now)} :
          FaultFinish(r, psid)

NextCacheFault ==
    \/ \E psid \in PSIDs : FaultLoad(psid)
    \/ \E mode \in RedisModes : RedisEvent(mode)
    \/ Tick(3)

SpecCacheFault == InitCacheFault /\ [][NextCacheFault]_vars

(***************************************************************************)
(* SpecCatalog: loadFishTypes applied to the FISH_* variables of a         *)
(* deployment.  A definition is the list of its comma-separated parts,     *)
(* each part the sequence of its characters.                               *)
(***************************************************************************)
DigitValue ==
    [c \in {"0", "1", "2", "3", "4", "5", "6", "7", "8", "9"} |->
        CASE c = "0" -> 0 [] c = "1" -> 1 [] c = "2" -> 2 [] c = "3" -> 3
          [] c = "4" -> 4 [] c = "5" -> 5 [] c = "6" -> 6 [] c = "7" -> 7
          [] c = "8" -> 8 [] c = "9" -> 9]

IsDigits(chars) ==
    Len(chars) > 0 /\ \A i \in 1..Len(chars) : chars[i] \in DOMAIN DigitValue

RECURSIVE DecimalValue(_)
DecimalValue(chars) ==
    IF chars = <<>> THEN 0
    ELSE 10 * DecimalValue(SubSeq(chars, 1, Len(chars) - 1))
             + DigitValue[chars[Len(chars)]]

\* parseInt: an optional sign, then the longest run of digits; NaN when
\* there is no digit.
parseInt(chars) ==
    LET signed == Len(chars) > 0 /\ chars[1] \in {"-", "+"}
        body == IF signed THEN Tail(chars) ELSE chars
        n == Cardinality({k \in 1..Len(body) : IsDigits(SubSeq(body, 1, k))})
    IN  IF n = 0 THEN [nan |-> TRUE, value |-> 0]
        ELSE [nan |-> FALSE,
              value |-> IF signed /\ chars[1] = "-"
                        THEN 0 - DecimalValue(SubSeq(body, 1, n))
                        ELSE DecimalValue(SubSeq(body, 1, n))]

\* size.match(/^(\d+)x(\d+)$/)
sizeMatch(size) ==
    \E i \in 1..Len(size) :
        /\ size[i] = "x"
        /\ IsDigits(SubSeq(size, 1, i - 1))
        /\ IsDigits(SubSeq(size, i + 1, Len(size)))

\* parseFishDefinition: six parts, a size of the form WIDTHxHEIGHT, a known
\* rarity (c, u, r, v for common, uncommon, rare, very_rare) and a known
\* cycle (d, n for diurnal, nocturnal), or it throws.
parseFishDefinition(parts) ==
    IF \/ Len(parts) # 6
       \/ ~sizeMatch(parts[6])
       \/ parts[4] \notin {<<"c">>, <<"u">>, <<"r">>, <<"v">>}
       \/ parts[5] \notin {<<"d">>, <<"n">>}
    THEN [thrown |-> TRUE]
    ELSE [thrown |-> FALSE, name |-> parts[1],
          feedIntervalMin |-> parseInt(parts[2]),
          hungerThreshold |-> parseInt(parts[3]),
          rarity |-> parts[4], cycle |-> parts[5]]

\* The definitions of loadDefaultFishTypes, names abbreviated.
DefaultDefinitions ==
    {<<<<"C">>, <<"5">>, <<"6", "0">>, <<"c">>, <<"d">>, <<"3", "0", "x", "2", "0">>>>,
     <<<<"A">>, <<"4">>, <<"8", "0">>, <<"u">>, <<"d">>, <<"2", "8", "x", "2", "2">>>>,
     <<<<"B">>, <<"3">>, <<"4", "5">>, <<"r">>, <<"n">>, <<"2", "5", "x", "1", "8">>>>,
     <<<<"G">>, <<"6">>, <<"1", "0", "0">>, <<"c">>, <<"d">>, <<"3", "2", "x", "2", "4">>>>,
     <<<<"D">>, <<"2">>, <<"1", "2", "0">>, <<"v">>, <<"n">>, <<"4", "0", "x", "3", "0">>>>}

\* The values a FISH_* variable may hold: well-formed ones, ones with a
\* zero, negative or non-numeric number, and malformed ones.
EnvDefinitions ==
    {<<<<"E">>, <<"2">>, <<"9", "0">>, <<"u">>, <<"n">>, <<"3", "x", "2">>>>,
     <<<<"Z">>, <<"0">>, <<"5", "0">>, <<"c">>, <<"d">>, <<"3", "x", "2">>>>,
     <<<<"N">>, <<"4">>, <<"-", "7">>, <<"c">>, <<"d">>, <<"3", "x", "2">>>>,
     <<<<"T">>, <<"a">>, <<"5", "0">>, <<"r">>, <<"n">>, <<"3", "x", "2">>>>,
     <<<<"S">>, <<"2">>, <<"9", "0">>, <<"u">>, <<"n">>, <<"b", "i", "g">>>>,
     <<<<"R">>, <<"2">>, <<"9", "0">>, <<"x">>, <<"n">>, <<"3", "x", "2">>>>,
     <<<<"F">>, <<"2">>, <<"9", "0">>, <<"u">>, <<"n">>>>}

\* The species a list of definitions loads: those that parse, keyed by name.
parsedTypes(defs) ==
    {parseFishDefinition(d) : d \in {e \in defs : ~parseFishDefinition(e).thrown}}

\* loadFishTypes: the definitions of the environment that parse, or the
\* defaults when none does.
loadFishTypes(env) ==
    LET loaded == parsedTypes({env[i] : i \in 1..Len(env)})
    IN  IF loaded = {} THEN parsedTypes(DefaultDefinitions) ELSE loaded

InitCatalog ==
    /\ catalog = {"Clownfish", "Betta"}
    /\ now = Noon
    /\ aquariums = {}
    /\ fish = {}
    /\ leaderboard = {}
    /\ nextFishId = 1
    /\ nextAquariumId = 1
    /\ response = NoResponse
    /\ \E n \in 0..MaxEnvKeys : \E env \in [1..n -> EnvDefinitions] :
          lastReq = [kind |-> "env", env |-> env, fishTypes |-> {}]
    /\ steps = 0
    /\ txn = [c \in Callers |-> IdleTxn]
    /\ backend = "sqlite"
    /\ redis = NoRedis

\* The constructor of FishConfig.
LoadFishTypes ==
    /\ lastReq.kind = "env"
    /\ lastReq' = [lastReq EXCEPT !.kind = "loaded",
                                  !.fishTypes = loadFishTypes(lastReq.env)]
    /\ UNCHANGED <<catalog, now, aquariums, fish, leaderboard, nextFishId,
                   nextAquariumId, response, steps, txn, backend, redis>>

NextCatalog == LoadFishTypes

SpecCatalog == InitCatalog /\ [][NextCatalog]_vars

(***************************************************************************)
(* SpecGateway: the operations of the gateway called one after another on  *)
(* either backend, lastReq keeping the operation and its arguments.        *)
(* Hunger is held in tenths of a point; fish.hunger is declared INTEGER in *)
(* both schemas.  SQLite stores a fractional value in such a column as it  *)
(* is; PostgreSQL rejects the statement.                                   *)
(***************************************************************************)
\* The values of updates are accepted by the INTEGER columns of PostgreSQL.
FitsInteger(updates) ==
    "hunger" \in DOMAIN updates => updates.hunger % Tenths(1) = 0

\* PostgresDB.updateFish
pgUpdateFish(db, fishId, updates) ==
    IF FitsInteger(updates) THEN updateFish(db, fishId, updates) ELSE db

\* PostgresDB.updateAquarium
pgUpdateAquarium(db, psid, updates) ==
    [db EXCEPT !.aquariums =
        {IF a.psid = psid THEN Assign(a, updates) ELSE a : a \in @}]

\* PostgresDB.addFish: INSERT ... RETURNING *
pgAddFish(st, aquariumId, fishData, time) ==
    IF FitsInteger(fishData)
    THEN Stmt(st, InsertFish(st.db, aquariumId, fishData, time))
    ELSE st

\* PostgresDB.removeFish: two statements, no transaction.
pgRemoveFish(st, fishId) ==
    LET s1 == Stmt(st, DeleteFish(st.db, fishId))
    IN  Stmt(s1, DeleteLeaderboardRow(s1.db, fishId))

NoOp == [name |-> "none", id |-> 0, updates |-> EmptyObject]

\* The database the operation op leaves on backend b.
GatewayApply(b, db, op, time) ==
    LET st == Exec(db, -1)
        target == CHOOSE f \in db.fish : f.id = op.id
    IN  CASE op.name = "addFish" ->
                 IF b = "sqlite" THEN addFish(st, 1, op.updates, time).db
                 ELSE pgAddFish(st, 1, op.updates, time).db
          [] op.name = "updateFish" ->
                 IF b = "sqlite" THEN updateFish(db, op.id, op.updates)
                 ELSE pgUpdateFish(db, op.id, op.updates)
          [] op.name = "updateAquarium" ->
                 IF b = "sqlite" THEN updateAquarium(db, "p1", op.updates)
                 ELSE pgUpdateAquarium(db, "p1", op.updates)
          [] op.name = "removeFish" ->
                 IF b = "sqlite" THEN removeFish(st, op.id).db
                 ELSE pgRemoveFish(st, op.id).db
          [] op.name = "updateLeaderboard" ->
                 IF b = "sqlite" THEN updateLeaderboard(st, target, "p1").db
                 ELSE pgUpdateLeaderboard(st, target, "p1").db

\* The updates the engine passes to updateFish: a whole and a fractional
\* hunger from the catch-up, a position, and the columns of a feeding.
GatewayFishUpdates ==
    {[hunger |-> Tenths(12)],
     [hunger |-> Tenths(13) + 5],
     [x |-> 10, y |-> 20],
     [hunger |-> 0, last_fed |-> now, spawn_count |-> 1]}

GatewayAquariumUpdates ==
    {[num_fish |-> 2],
     [tank_life_sec |-> 120, food_level |-> 40],
     [castle_unlocked |-> TRUE],
     [total_feedings |-> 1]}

InitGateway ==
    /\ catalog = {"Clownfish", "Betta"}
    /\ now = Noon
    /\ aquariums = {NewAquariumRow(1, "p1")}
    /\ fish = {}
    /\ leaderboard = {}
    /\ nextFishId = 1
    /\ nextAquariumId = 2
    /\ response = NoResponse
    /\ lastReq = [kind |-> "gateway", op |-> NoOp]
    /\ steps = 0
    /\ txn = [c \in Callers |-> IdleTxn]
    /\ backend \in Backends
    /\ redis = NoRedis

GatewayCall(op) ==
    /\ StoreDb(GatewayApply(backend, DB, op, now))
    /\ lastReq' = [kind |-> "gateway", op |-> op]
    /\ steps' = steps + 1
    /\ now' = now + 1
    /\ UNCHANGED <<catalog, response, txn, backend, redis>>

GwAddFish(type) ==
    /\ steps < MaxGatewaySteps
    /\ GatewayCall([name |-> "addFish", id |-> nextFishId,
                    updates |-> FreshFish(type, now)])

GwUpdateFish(id, updates) ==
    /\ steps < MaxGatewaySteps
    /\ GatewayCall([name |-> "updateFish", id |-> id, updates |-> updates])

GwUpdateAquarium(updates) ==
    /\ steps < MaxGatewaySteps
    /\ GatewayCall([name |-> "updateAquarium", id |-> 0, updates |-> updates])

GwRemoveFish(id) ==
    /\ steps < MaxGatewaySteps
    /\ GatewayCall([name |-> "removeFish", id |-> id, updates |-> EmptyObject])

GwUpdateLeaderboard(id) ==
    /\ steps < MaxGatewaySteps
    /\ GatewayCall([name |-> "updateLeaderboard", id |-> id,
                    updates |-> EmptyObject])

NextGateway ==
    \/ \E type \in catalog : GwAddFish(type)
    \/ \E f \in fish : \E updates \in GatewayFishUpdates :
          GwUpdateFish(f.id, updates)
    \/ \E updates \in GatewayAquariumUpdates : GwUpdateAquarium(updates)
    \/ \E f \in fish : GwRemoveFish(f.id)
    \/ \E f \in fish : GwUpdateLeaderboard(f.id)

SpecGateway == InitGateway /\ [][NextGateway]_vars

(***************************************************************************)
(* SpecStarve: loads and feedings of an aquarium around 20:00, when the    *)
(* diurnal species go to rest and the nocturnal ones wake, with the clock  *)
(* running long enough for a resting fish to starve.                       *)
(***************************************************************************)
Dusk == 20 * 60

\* db with every row written at time t instead of noon.
WrittenAt(db, t) ==
    [db EXCEPT !.fish = {[f EXCEPT !.last_fed = t, !.created_at = t] : f \in @},
               !.leaderboard = {[l EXCEPT !.created_at = t] : l \in @}]

InitStarve ==
    /\ catalog = {"Clownfish", "Betta"}
    /\ now \in {Dusk - 10, Dusk}
    /\ \E db \in {WrittenAt(InitDb(CastleThreshold, 0, FALSE, FALSE), now)} :
          /\ aquariums = db.aquariums
          /\ fish = db.fish
          /\ leaderboard = db.leaderboard
          /\ nextFishId = db.nextFishId
          /\ nextAquariumId = db.nextAquariumId
    /\ response = NoResponse
    /\ lastReq = NoRequest
    /\ steps = 0
    /\ txn = [c \in Callers |-> IdleTxn]
    /\ backend = "sqlite"
    /\ redis = NoRedis

StarveTick ==
    /\ now + 1 <= Dusk + MaxStarve
    /\ now' = now + 1
    /\ UNCHANGED <<catalog, aquariums, fish, leaderboard, nextFishId,
                   nextAquariumId, response, lastReq, steps, txn, backend, redis>>

\* A push that feeds one fish.
Feed(psid, id, rnd) ==
    /\ id \in OwnFishIds(DB, psid)
    /\ Save(psid, [meta |-> EmptyObject, fish |-> <<[id |-> id, fed |-> TRUE]>>,
                   unlockables |-> EmptyObject], rnd)

NextStarve ==
    \/ Load("p1")
    \/ \E id \in 1..CastleThreshold : \E rnd \in [1..1 -> catalog] :
          Feed("p1", id, rnd)
    \/ StarveTick

SpecStarve == InitStarve /\ [][NextStarve]_vars

(***************************************************************************)
(* SpecAnomaly: Spec from databases in which the last_fed of the first     *)
(* fish of aquarium p1 cannot be parsed.                                   *)
(***************************************************************************)
UnparsableLastFed(db) ==
    [db EXCEPT !.fish = {IF f.id = 1 THEN [f EXCEPT !.last_fed = InvalidDate]
                         ELSE f : f \in @}]

InitAnomaly ==
    /\ catalog = {"Clownfish", "Betta"}
    /\ now = Noon
    /\ \E db \in {UnparsableLastFed(InitDb(1, 0, FALSE, FALSE)),
                   UnparsableLastFed(InitDb(CastleThreshold, 0, FALSE, FALSE))} :
          /\ aquariums = db.aquariums
          /\ fish = db.fish
          /\ leaderboard = db.leaderboard
          /\ nextFishId = db.nextFishId
          /\ nextAquariumId = db.nextAquariumId
    /\ response = NoResponse
    /\ lastReq = NoRequest
    /\ steps = 0
    /\ txn = [c \in Callers |-> IdleTxn]
    /\ backend = "sqlite"
    /\ redis = NoRedis

SpecAnomaly == InitAnomaly /\ [][Next]_vars

(***************************************************************************)
(* SpecSaveConc: two saves for one PSID run at the same time.  A save      *)
(* reads the aquarium once; what it awaits after that is fixed by that     *)
(* read, the push and the clock, except for the id addFish returns.  The   *)
(* statements a save still has to await are txn[c].ops; a fish the save    *)
(* spawns carries the id -n in them until addFish has returned the id of   *)
(* the n-th fish the save inserted, kept in txn[c].newIds.                 *)
(***************************************************************************)
\* spawnFish as the statements it awaits; p.aq is the in-memory aquarium.
PlanSpawnFish(p, typeName, time) ==
    LET row == FreshFish(typeName, time) @@
               [id |-> 0 - (p.spawned + 1), aquarium_id |-> p.aq.id,
                created_at |-> time]
    IN  [aq |-> Assign(p.aq, [fish |-> Append(p.aq.fish, row),
                              num_fish |-> Len(p.aq.fish) + 1]),
         spawned |-> p.spawned + 1,
         ops |-> p.ops \o
                 <<[op |-> "addFish", fish |-> FreshFish(typeName, time)],
                   [op |-> "updateAquarium",
                    changes |-> [num_fish |-> Len(p.aq.fish) + 1]],
                   [op |-> "updateLeaderboard", fish |-> row]>>]

\* The feeding branch of updateFishData as the statements it awaits.
PlanFeeding(p, spawns, typeName, time) ==
    LET p1 == [p EXCEPT
                  !.aq.total_feedings = @ + 1,
                  !.ops = Append(@, [op |-> "updateAquarium",
                                     changes |-> [total_feedings |->
                                                  p.aq.total_feedings + 1]])]
    IN  IF spawns THEN PlanSpawnFish(p1, typeName, time) ELSE p1

\* updateFish(fish.id, changes) and Object.assign(fish, changes).
PlanUpdateFish(p, idx, changes) ==
    IF DOMAIN changes = {} THEN p
    ELSE [p EXCEPT !.aq.fish[idx] = Assign(@, changes),
                   !.ops = Append(@, [op |-> "updateFish",
                                      id |-> p.aq.fish[idx].id,
                                      changes |-> changes])]

\* The loop of updateFishData as the statements it awaits.
RECURSIVE PlanFishData(_, _, _, _, _, _)
PlanFishData(p, fishUpdates, i, cat, time, rnd) ==
    IF i > Len(fishUpdates) THEN p
    ELSE
    LET update == fishUpdates[i]
        idx == IndexOfFish(p.aq.fish, update.id)
    IN  IF idx = 0
        THEN PlanFishData(p, fishUpdates, i + 1, cat, time, rnd)
        ELSE
        LET f == p.aq.fish[idx]
            hasPosition == {"x", "y"} \subseteq DOMAIN update
            hasHunger == "hunger" \in DOMAIN update
            feeding == /\ "fed" \in DOMAIN update
                       /\ update.fed
                       /\ getFishType(cat, f.type)
            baseHunger == IF hasHunger /\ update.hunger # 0
                          THEN update.hunger ELSE f.hunger
            newSpawnCount == f.spawn_count + 1
            spawns == feeding /\ newSpawnCount >=
                          getSpawnConditions(f.type).feedingsRequired
            keys == (IF hasPosition THEN {"x", "y"} ELSE {})
                    \cup (IF hasHunger \/ feeding THEN {"hunger"} ELSE {})
                    \cup (IF feeding THEN {"last_fed", "spawn_count"} ELSE {})
            changes ==
                [k \in keys |->
                    CASE k = "x" -> Max(0, Min(1920, update.x))
                      [] k = "y" -> Max(0, Min(1080, update.y))
                      [] k = "hunger" ->
                            IF feeding THEN Max(0, baseHunger - Tenths(20))
                            ELSE update.hunger
                      [] k = "last_fed" -> time
                      [] k = "spawn_count" ->
                            IF spawns THEN 0 ELSE newSpawnCount]
        IN  PlanFishData(
                PlanUpdateFish(
                    IF feeding
                    THEN PlanFeeding(p, spawns /\ rnd[i] \in selectRandomFish(cat),
                                     rnd[i], time)
                    ELSE p,
                    idx, changes),
                fishUpdates, i + 1, cat, time, rnd)

\* updateUnlockables as the statement it awaits.
PlanUnlockables(p, unlockables) ==
    LET aq == p.aq
        castleKey == IF "castle" \in DOMAIN unlockables
                        /\ (aq.num_fish >= CastleThreshold \/ aq.castle_unlocked)
                     THEN {"castle_unlocked"} ELSE {}
        submarineKey == IF "submarine" \in DOMAIN unlockables
                           /\ (aq.num_fish >= SubmarineThreshold
                               \/ aq.submarine_unlocked)
                        THEN {"submarine_unlocked"} ELSE {}
        musicKey == IF "music" \in DOMAIN unlockables
                    THEN {"music_enabled"} ELSE {}
        keys == castleKey \cup submarineKey \cup musicKey
        updates ==
            [k \in keys |->
                CASE k = "castle_unlocked" ->
                        IF aq.num_fish >= CastleThreshold
                        THEN unlockables.castle ELSE FALSE
                  [] k = "submarine_unlocked" ->
                        IF aq.num_fish >= SubmarineThreshold
                        THEN unlockables.submarine ELSE FALSE
                  [] k = "music_enabled" -> unlockables.music]
    IN  IF keys = {} THEN p
        ELSE [p EXCEPT !.aq = Assign(@, updates),
                       !.ops = Append(@, [op |-> "updateAquarium",
                                          changes |-> updates])]

\* A loop over the fish the save read at its start, without the spawned ones.
PlanLeaderboard_Stale(p) ==
    p.ops \o [i \in 1..(Len(p.aq.fish) - p.spawned) |->
                 [op |-> "updateLeaderboard", fish |-> p.aq.fish[i]]]

\* for (const fish of aquarium.fish) await updateLeaderboard(fish, psid)
PlanLeaderboard(p) ==
    p.ops \o [i \in 1..Len(p.aq.fish) |->
                 [op |-> "updateLeaderboard", fish |-> p.aq.fish[i]]]

\* saveAquariumState after getAquarium returned aq, as the statements it
\* awaits, in order.
SaveOps(aq, updates, cat, time, rnd) ==
    PlanLeaderboard(
        PlanUnlockables(
            PlanFishData(
                [aq |-> Assign(aq, updates.meta), spawned |-> 0,
                 ops |-> IF DOMAIN updates.meta = {} THEN <<>>
                         ELSE <<[op |-> "updateAquarium",
                                 changes |-> updates.meta]>>],
                updates.fish, 1, cat, time, rnd),
            updates.unlockables))

\* The pushes the two clients send: a feeding, a hunger report, a move,
\* the session counters, an unlock request.
ConcPushes ==
    {[meta |-> EmptyObject, fish |-> <<u>>, unlockables |-> EmptyObject]
        : u \in {[id |-> 1, fed |-> TRUE], [id |-> 1, hunger |-> Tenths(30)],
                 [id |-> 1, x |-> -5, y |-> 1100]}}
    \cup {[meta |-> [tank_life_sec |-> 120, food_level |-> 40],
           fish |-> <<>>, unlockables |-> EmptyObject],
          [meta |-> [tank_life_sec |-> 60], fish |-> <<>>,
           unlockables |-> [castle |-> TRUE]]}

IdleSave == [pc |-> "idle", ops |-> <<>>, newIds |-> <<>>]

\* Nothing written yet: the rows as they were, and no column written.
NoWrites(db) ==
    [kind |-> "concurrent", psid |-> "p1", initial |-> db,
     aquarium |-> EmptyObject, fish |-> [k \in {} |-> 0]]

InitSaveConc ==
    /\ catalog = {"Clownfish", "Betta"}
    /\ now = Noon
    /\ \E db \in {InitDb(1, feedingsRequired - 1, FALSE, FALSE),
                   InitDb(CastleThreshold, 0, FALSE, FALSE),
                   InitDb(CastleThreshold, 0, TRUE, FALSE)} :
          /\ aquariums = db.aquariums
          /\ fish = db.fish
          /\ leaderboard = db.leaderboard
          /\ nextFishId = db.nextFishId
          /\ nextAquariumId = db.nextAquariumId
          /\ lastReq = NoWrites(db)
    /\ response = NoResponse
    /\ steps = 0
    /\ txn = [c \in Callers |-> IdleSave]
    /\ backend = "sqlite"
    /\ redis = NoRedis

\* getAquarium of a save; without the aquarium the save throws.
ConcSaveStart(c, psid, updates, rnd) ==
    /\ txn[c].pc = "idle"
    /\ txn' = [txn EXCEPT ![c] =
                 IF ~HasAquarium(DB, psid) THEN [IdleSave EXCEPT !.pc = "failed"]
                 ELSE [pc |-> "run", newIds |-> <<>>,
                       ops |-> SaveOps(getAquarium(DB, psid), updates, catalog,
                                       now, rnd)]]
    /\ UNCHANGED <<catalog, now, aquariums, fish, leaderboard, nextFishId,
                   nextAquariumId, response, lastReq, steps, backend, redis>>

\* The fish of an updateLeaderboard with the id addFish returned for it.
ResolveFish(f, newIds) ==
    IF f.id < 0 THEN [f EXCEPT !.id = newIds[0 - f.id]] ELSE f

\* The database after the next statement of a save or a load.
ApplyOp(db, o, psid, newIds, time) ==
    CASE o.op = "updateAquarium" -> updateAquarium(db, psid, o.changes)
      [] o.op = "updateFish" -> updateFish(db, o.id, o.changes)
      [] o.op = "deleteFish" -> DeleteFish(db, o.id)
      [] o.op = "deleteLeaderboardRow" -> DeleteLeaderboardRow(db, o.id)
      [] o.op = "addFish" ->
            InsertFish(db, getAquarium(db, psid).id, o.fish, time)
      [] o.op = "updateLeaderboard" ->
            [db EXCEPT !.leaderboard =
                Trim(UpsertLeaderboard(@, LeaderboardRow(
                                              ResolveFish(o.fish, newIds), psid)))]

\* The columns written so far with the value written last.
RecordWrite(w, o, newId, time) ==
    CASE o.op = "updateAquarium" ->
            [w EXCEPT !.aquarium =
                [k \in DOMAIN @ \cup DOMAIN o.changes |->
                    IF k \in DOMAIN o.changes THEN o.changes[k] ELSE @[k]]]
      [] o.op = "updateFish" ->
            [w EXCEPT !.fish =
                [k \in DOMAIN @ \cup {<<o.id, c>> : c \in DOMAIN o.changes} |->
                    IF k[1] = o.id /\ k[2] \in DOMAIN o.changes
                    THEN o.changes[k[2]] ELSE @[k]]]
      [] o.op = "addFish" ->
            [w EXCEPT !.fish =
                [k \in DOMAIN @ \cup {<<newId, c>> : c \in DOMAIN o.fish} |->
                    IF k[1] = newId THEN o.fish[k[2]] ELSE @[k]]]
      [] o.op = "updateLeaderboard" -> w

\* One awaited statement of save c completes.
ConcSaveStep(c) ==
    /\ txn[c].pc = "run"
    /\ txn[c].ops # <<>>
    /\ nextFishId <= MaxFishId
    /\ StoreDb(ApplyOp(DB, Head(txn[c].ops), lastReq.psid, txn[c].newIds, now))
    /\ lastReq' = RecordWrite(lastReq, Head(txn[c].ops), nextFishId, now)
    /\ txn' = [txn EXCEPT
                 ![c].ops = Tail(@),
                 ![c].newIds = IF Head(txn[c].ops).op = "addFish"
                               THEN Append(@, nextFishId) ELSE @,
                 ![c].pc = IF Len(txn[c].ops) = 1 THEN "done" ELSE "run"]
    /\ UNCHANGED <<catalog, now, response, steps, backend, redis>>

NextSaveConc ==
    \/ \E c \in Callers : \E updates \in ConcPushes :
          \E rnd \in [1..Len(updates.fish) -> catalog] :
              ConcSaveStart(c, "p1", updates, rnd)
    \/ \E c \in Callers : ConcSaveStep(c)

SpecSaveConc == InitSaveConc /\ [][NextSaveConc]_vars

(***************************************************************************)
(* SpecSaveLog: saves served one after another, one awaited statement per  *)
(* step, lastReq keeping the gateway calls the running save has made.      *)
(***************************************************************************)
Saver == CHOOSE c \in Callers : TRUE

NoCalls == [kind |-> "statements", psid |-> "p1", log |-> <<>>]

\* The pushes served: the concurrent ones, a feeding with an unlock request,
\* and the same fish fed twice.
LoggedPushes ==
    ConcPushes
    \cup {[meta |-> EmptyObject, fish |-> <<[id |-> 1, fed |-> TRUE]>>,
           unlockables |-> [castle |-> TRUE, music |-> FALSE]],
          [meta |-> EmptyObject,
           fish |-> <<[id |-> 1, fed |-> TRUE], [id |-> 1, fed |-> TRUE]>>,
           unlockables |-> EmptyObject]}

InitSaveLog ==
    /\ catalog = {"Clownfish", "Betta"}
    /\ now = Noon
    /\ \E db \in {InitDb(1, feedingsRequired - 1, FALSE, FALSE),
                   InitDb(1, feedingsRequired - 2, FALSE, FALSE),
                   InitDb(CastleThreshold, feedingsRequired - 1, FALSE, FALSE)} :
          /\ aquariums = db.aquariums
          /\ fish = db.fish
          /\ leaderboard = db.leaderboard
          /\ nextFishId = db.nextFishId
          /\ nextAquariumId = db.nextAquariumId
    /\ response = NoResponse
    /\ lastReq = NoCalls
    /\ steps = 0
    /\ txn = [c \in Callers |-> IdleSave]
    /\ backend = "sqlite"
    /\ redis = NoRedis

\* getAquarium of a save, once the save before it has returned.
LogSaveStart(updates, rnd) ==
    /\ steps < MaxLoggedSaves
    /\ txn[Saver].pc \in {"idle", "done"}
    /\ txn' = [txn EXCEPT ![Saver] =
                 [pc |-> "run", newIds |-> <<>>,
                  ops |-> SaveOps(getAquarium(DB, "p1"), updates, catalog,
                                  now, rnd)]]
    /\ lastReq' = NoCalls
    /\ steps' = steps + 1
    /\ UNCHANGED <<catalog, now, aquariums, fish, leaderboard, nextFishId,
                   nextAquariumId, response, backend, redis>>

\* The gateway call of statement o: its name and the fish it is made for.
CallOf(o, newIds, newId) ==
    [op |-> o.op,
     id |-> CASE o.op = "updateLeaderboard" -> ResolveFish(o.fish, newIds).id
              [] o.op = "updateFish" -> o.id
              [] o.op = "addFish" -> newId
              [] o.op = "updateAquarium" -> 0]

\* The next awaited statement of the save completes.
LogSaveStep ==
    /\ txn[Saver].pc = "run"
    /\ txn[Saver].ops # <<>>
    /\ nextFishId <= MaxFishId
    /\ StoreDb(ApplyOp(DB, Head(txn[Saver].ops), "p1", txn[Saver].newIds, now))
    /\ lastReq' = [lastReq EXCEPT !.log =
                      Append(@, CallOf(Head(txn[Saver].ops), txn[Saver].newIds,
                                       nextFishId))]
    /\ txn' = [txn EXCEPT
                 ![Saver].ops = Tail(@),
                 ![Saver].newIds = IF Head(txn[Saver].ops).op = "addFish"
                                   THEN Append(@, nextFishId) ELSE @,
                 ![Saver].pc = IF Len(txn[Saver].ops) = 1 THEN "done" ELSE "run"]
    /\ UNCHANGED <<catalog, now, response, steps, backend, redis>>

NextSaveLog ==
    \/ \E updates \in LoggedPushes :
          \E rnd \in [1..Len(updates.fish) -> catalog] :
              LogSaveStart(updates, rnd)
    \/ LogSaveStep

SpecSaveLog == InitSaveLog /\ [][NextSaveLog]_vars

(***************************************************************************)
(* SpecMix: a load and a save, or two loads, for one PSID run at the same  *)
(* time.  A load reads the aquarium once; the statements it awaits after   *)
(* that are fixed by that read and the clock, as for a save.               *)
(***************************************************************************)
\* The loop of updateFishStates as the statements it awaits; p.aq.fish is
\* updatedFish.
RECURSIVE PlanFishStates(_, _, _, _, _)
PlanFishStates(p, list, i, cat, time) ==
    IF i > Len(list) THEN p
    ELSE LET f == list[i]
         IN  IF ~getFishType(cat, f.type)
             THEN PlanFishStates(p, list, i + 1, cat, time)
             ELSE
             LET fishType == FishDefs[f.type]
                 lastFed == IF f.last_fed = InvalidDate THEN time
                            ELSE f.last_fed
                 minutesSinceFed == time - lastFed
                 hungerRate == getHungerRate(fishType, isFishActive(fishType, time))
                 newHunger == Min(fishType.hungerThreshold,
                                  f.hunger + minutesSinceFed * hungerRate)
             IN  IF newHunger >= fishType.hungerThreshold
                 THEN PlanFishStates(
                          [p EXCEPT !.fishDied = TRUE,
                                    !.ops = @ \o
                                        <<[op |-> "deleteFish", id |-> f.id],
                                          [op |-> "deleteLeaderboardRow",
                                           id |-> f.id]>>],
                          list, i + 1, cat, time)
                 ELSE IF newHunger - f.hunger > 1 \/ f.hunger - newHunger > 1
                 THEN PlanFishStates(
                          [p EXCEPT !.aq.fish =
                                        Append(@, [f EXCEPT !.hunger = newHunger]),
                                    !.ops = Append(@,
                                        [op |-> "updateFish", id |-> f.id,
                                         changes |-> [hunger |-> newHunger]])],
                          list, i + 1, cat, time)
                 ELSE PlanFishStates([p EXCEPT !.aq.fish = Append(@, f)],
                                     list, i + 1, cat, time)

\* updateFishStates as the statements it awaits.
PlanUpdateFishStates(aq, cat, time) ==
    LET r == PlanFishStates([aq |-> [aq EXCEPT !.fish = <<>>], spawned |-> 0,
                             ops |-> <<>>, fishDied |-> FALSE],
                            aq.fish, 1, cat, time)
        p == [aq |-> [r.aq EXCEPT !.num_fish = Len(r.aq.fish)],
              spawned |-> 0, ops |-> r.ops]
    IN  IF r.fishDied /\ Len(r.aq.fish) = 0
        THEN [p EXCEPT !.aq = Assign(@, AllFishDiedReset),
                       !.ops = Append(@, [op |-> "updateAquarium",
                                          changes |-> AllFishDiedReset])]
        ELSE IF r.fishDied
        THEN [p EXCEPT !.ops = Append(@, [op |-> "updateAquarium",
                                          changes |->
                                              [num_fish |-> Len(r.aq.fish)]])]
        ELSE p

\* spawnStarterFish as the statements it awaits.
PlanStarterFish(p, cat, time) ==
    LET availableFish == getAllFishTypes(cat)
        commonFish == getFishByRarity(cat, "common")
    IN  IF availableFish = <<>> THEN p
        ELSE PlanSpawnFish(p, IF Len(commonFish) > 0 THEN commonFish[1]
                              ELSE availableFish[1], time)

\* getAndUpdateAquariumState after getAquarium returned aq, as the
\* statements it awaits, in order.
LoadOps(aq, cat, time) ==
    LET p == PlanUpdateFishStates(aq, cat, time)
    IN  IF Len(p.aq.fish) = 0 THEN PlanStarterFish(p, cat, time).ops
        ELSE p.ops

\* Whether some fish of the aquarium has not starved by the given time.
HasLiveFish(aq, cat, time) ==
    Len(PlanUpdateFishStates(aq, cat, time).aq.fish) > 0

\* What each caller asked for, and whether the aquarium had a live fish
\* when the requests arrived.
NoMixCalls(db, cat, time) ==
    [kind |-> "mix", calls |-> [c \in Callers |-> "none"],
     live |-> HasLiveFish(getAquarium(db, "p1"), cat, time)]

\* One aquarium with one or two fish fed at noon; the requests arrive at
\* noon or after the Clownfish has starved.
InitMix ==
    /\ catalog = {"Clownfish", "Betta"}
    /\ now \in {Noon, Noon + FishDefs["Clownfish"].feedIntervalMin}
    /\ \E db \in {InitDb(1, 0, FALSE, FALSE),
                   InitDb(CastleThreshold, 0, FALSE, FALSE)} :
          /\ aquariums = db.aquariums
          /\ fish = db.fish
          /\ leaderboard = db.leaderboard
          /\ nextFishId = db.nextFishId
          /\ nextAquariumId = db.nextAquariumId
          /\ lastReq = NoMixCalls(db, catalog, now)
    /\ response = NoResponse
    /\ steps = 0
    /\ txn = [c \in Callers |-> IdleSave]
    /\ backend = "sqlite"
    /\ redis = NoRedis

\* The caller's request has read the aquarium and awaits the given
\* statements.
MixStarted(c, call, ops) ==
    /\ txn' = [txn EXCEPT ![c] = [pc |-> IF ops = <<>> THEN "done" ELSE "run",
                                  ops |-> ops, newIds |-> <<>>]]
    /\ lastReq' = [lastReq EXCEPT !.calls[c] = call]
    /\ UNCHANGED <<catalog, now, aquariums, fish, leaderboard, nextFishId,
                   nextAquariumId, response, steps, backend, redis>>

\* getAquarium of a load.
MixLoadStart(c) ==
    /\ txn[c].pc = "idle"
    /\ MixStarted(c, "load", LoadOps(getAquarium(DB, "p1"), catalog, now))

\* getAquarium of a save.
MixSaveStart(c, updates, rnd) ==
    /\ txn[c].pc = "idle"
    /\ MixStarted(c, "save",
                  SaveOps(getAquarium(DB, "p1"), updates, catalog, now, rnd))

\* One awaited statement of request c completes.
MixStep(c) ==
    /\ txn[c].pc = "run"
    /\ nextFishId <= MaxFishId
    /\ StoreDb(ApplyOp(DB, Head(txn[c].ops), "p1", txn[c].newIds, now))
    /\ txn' = [txn EXCEPT
                 ![c].ops = Tail(@),
                 ![c].newIds = IF Head(txn[c].ops).op = "addFish"
                               THEN Append(@, nextFishId) ELSE @,
                 ![c].pc = IF Len(txn[c].ops) = 1 THEN "done" ELSE "run"]
    /\ UNCHANGED <<catalog, now, response, lastReq, steps, backend, redis>>

NextMix ==
    \/ \E c \in Callers : MixLoadStart(c)
    \/ \E c \in Callers : \E updates \in ConcPushes :
          \E rnd \in [1..Len(updates.fish) -> catalog] :
              MixSaveStart(c, updates, rnd)
    \/ \E c \in Callers : MixStep(c)

SpecMix == InitMix /\ [][NextMix]_vars

(***************************************************************************)
(* SpecClient: the browser client between its load and its saves.  The     *)
(* client object is lastReq.client; lastReq.pending are the save requests  *)
(* whose fetch has not settled, which may overlap since the interval       *)
(* callback does not await saveToServer.  lastReq.owed are the fish with a *)
(* feeding no successful save has carried yet.                             *)
(***************************************************************************)
MaxClientSaves == 5
MaxClientFeeds == 2

\* this.maxSyncAttempts
maxSyncAttempts == 3

\* The client after loadAquariumState succeeded, or after it failed.
NewClient(rows, loaded) ==
    [isOnline |-> loaded, syncAttempts |-> 0, needsSave |-> FALSE,
     fish |-> [id \in {f.id : f \in rows} |->
                  ClientFish(CHOOSE f \in rows : f.id = id)]]

InitClient ==
    /\ catalog = {"Clownfish", "Betta"}
    /\ now = Noon
    /\ \E db \in {InitDb(CastleThreshold, 0, FALSE, FALSE)} :
          /\ aquariums = db.aquariums
          /\ fish = db.fish
          /\ leaderboard = db.leaderboard
          /\ nextFishId = db.nextFishId
          /\ nextAquariumId = db.nextAquariumId
          /\ \E loaded \in BOOLEAN :
                lastReq = [kind |-> "client",
                           client |-> NewClient(db.fish, loaded),
                           pending |-> {}, owed |-> {}, sent |-> 0,
                           succeeded |-> 0, failed |-> 0, fed |-> 0,
                           wentOffline |-> FALSE]
    /\ response = NoResponse
    /\ steps = 0
    /\ txn = [c \in Callers |-> IdleTxn]
    /\ backend = "sqlite"
    /\ redis = NoRedis

ClientFrame ==
    UNCHANGED <<catalog, now, aquariums, fish, leaderboard, nextFishId,
                nextAquariumId, response, steps, txn, backend, redis>>

\* A fish reaches the food: seekFoodBehavior marks it, and the next frame
\* marks the aquarium for a save.
ClientFeed(id) ==
    /\ lastReq.fed < MaxClientFeeds
    /\ lastReq' = [lastReq EXCEPT
                     !.client.fish[id] = seekFoodBehavior(@, now),
                     !.client.needsSave = TRUE,
                     !.owed = @ \cup {id},
                     !.fed = @ + 1]
    /\ ClientFrame

\* needsSave && timeSinceLastSave >= saveInterval && isOnline; the time
\* since the last save is not modelled.
shouldSaveToServer(client) == client.needsSave /\ client.isOnline

\* The interval callback fires and saveToServer sends its request:
\* getAllServerData puts the fed flags into the request and resets them.
ClientSave ==
    /\ lastReq.sent < MaxClientSaves
    /\ shouldSaveToServer(lastReq.client)
    /\ lastReq.client.isOnline
    /\ lastReq.client.syncAttempts < maxSyncAttempts
    /\ lastReq' = [lastReq EXCEPT
                     !.client.fish =
                         [id \in DOMAIN @ |-> [@[id] EXCEPT !.justFed = FALSE]],
                     !.pending = @ \cup
                         {[seq |-> lastReq.sent + 1,
                           fish |-> [id \in DOMAIN lastReq.client.fish |->
                                        getServerData(lastReq.client.fish[id])]]},
                     !.sent = @ + 1]
    /\ ClientFrame

\* The fish a request carries the fed flag for.
FedFlagsOf(request) ==
    {id \in DOMAIN request.fish : "fed" \in DOMAIN request.fish[id]}

\* The response of a save is ok: the rest of the try block.
ClientSaveSucceeds(request) ==
    /\ request \in lastReq.pending
    /\ lastReq' = [lastReq EXCEPT
                     !.client.needsSave = FALSE,
                     !.client.syncAttempts = 0,
                     !.client.isOnline = TRUE,
                     !.pending = @ \ {request},
                     !.owed = @ \ FedFlagsOf(request),
                     !.succeeded = @ + 1]
    /\ ClientFrame

\* The fetch of a save rejects or its response is not ok: the catch block.
ClientSaveFails(request) ==
    /\ request \in lastReq.pending
    /\ lastReq' = [lastReq EXCEPT
                     !.client.syncAttempts = @ + 1,
                     !.client.isOnline =
                         IF lastReq.client.syncAttempts + 1 >= maxSyncAttempts
                         THEN FALSE ELSE @,
                     !.pending = @ \ {request},
                     !.failed = @ + 1,
                     !.wentOffline =
                         @ \/ lastReq.client.syncAttempts + 1 >= maxSyncAttempts]
    /\ ClientFrame

NextClient ==
    \/ \E id \in DOMAIN lastReq.client.fish : ClientFeed(id)
    \/ ClientSave
    \/ \E request \in lastReq.pending : ClientSaveSucceeds(request)
    \/ \E request \in lastReq.pending : ClientSaveFails(request)

SpecClient == InitClient /\ [][NextClient]_vars

(***************************************************************************)
(* SpecHttp: the HTTP layer in front of the engine.  A PSID is the         *)
(* sequence of its characters; a request without psid has the empty one.   *)
(***************************************************************************)
\* [a-zA-Z0-9\-_]
PsidChars == {"a", "b", "c", "1", "-", "_"}

RawPSIDs ==
    {<<>>, <<"a", "b">>, <<"!", "a", "!", "b">>, <<"!", " ", "!">>,
     <<"a", "b", "c">>, <<"a", "!", "b", "c">>, <<"a", "-", "1">>}

\* psid.replace(/[^a-zA-Z0-9\-_]/g, '').slice(0, 64)
sanitizedPSID(psid) ==
    LET kept == SelectSeq(psid, LAMBDA ch : ch \in PsidChars)
    IN  SubSeq(kept, 1, Min(Len(kept), MaxPsidLength))

\* validatePSID answers 400 itself, or hands the request on.
validatePSID(psid) ==
    IF psid = <<>> THEN 400
    ELSE IF Len(sanitizedPSID(psid)) < MinPsidLength THEN 400
    ELSE 0

\* The bodies a POST may carry: a JSON object as the client sends it, text
\* that is not JSON, and a JSON object whose fish property is not a list.
HttpBodies(psid) ==
    {[form |-> "object", updates |-> u] : u \in SaveRequests(psid)}
    \cup {[form |-> "invalid_json"]}
    \cup {[form |-> "fish_not_list", updates |->
              [meta |-> [tank_life_sec |-> 120], fish |-> <<>>,
               unlockables |-> EmptyObject]]}

\* saveAquariumState for a body whose fish property is a number: the
\* aquarium is fetched, the session counters are written, then
\* `for (const update of fishUpdates)` throws.
saveNotIterable(db, psid, updates) ==
    LET s0 == Stmt(Exec(db, -1), db)
    IN  IF ~HasAquarium(db, psid) THEN [s0 EXCEPT !.failed = TRUE]
        ELSE [Stmt(s0, updateAquarium(db, psid, updates.meta))
                 EXCEPT !.failed = TRUE]

\* The answer of a route that ran the engine.
RouteAnswer(st) ==
    [status |-> IF st.failed THEN 500 ELSE 200, st |-> st, storage |-> TRUE]

\* The answer of a middleware that ended the request.
Rejected(db, status) ==
    [status |-> status, st |-> [Exec(db, -1) EXCEPT !.failed = TRUE],
     storage |-> FALSE]

\* GET /aquarium/state: validatePSID, then the route.
httpGet(db, psid, cat, time) ==
    IF validatePSID(psid) # 0 THEN Rejected(db, validatePSID(psid))
    ELSE RouteAnswer(getAndUpdateAquariumState(db, sanitizedPSID(psid), cat,
                                               time, -1))

\* POST /aquarium/state: express.json, whose error for text that is not
\* JSON goes to the error handler (500); validatePSID; then the route,
\* whose test of req.body never fails on what express.json hands on.
httpPost(db, psid, body, cat, time, rnd) ==
    IF body.form = "invalid_json" THEN Rejected(db, 500)
    ELSE IF validatePSID(psid) # 0 THEN Rejected(db, validatePSID(psid))
    ELSE IF body.form = "fish_not_list"
    THEN RouteAnswer(saveNotIterable(db, sanitizedPSID(psid), body.updates))
    ELSE RouteAnswer(saveAquariumState(db, sanitizedPSID(psid), body.updates,
                                       cat, time, rnd, -1))

InitHttp ==
    /\ catalog = {"Clownfish", "Betta"}
    /\ now = Noon
    /\ aquariums = {}
    /\ fish = {}
    /\ leaderboard = {}
    /\ nextFishId = 1
    /\ nextAquariumId = 1
    /\ response = NoResponse
    /\ lastReq = [NoRequest EXCEPT !.psid = <<>>]
    /\ steps = 0
    /\ txn = [c \in Callers |-> IdleTxn]
    /\ backend = "sqlite"
    /\ redis = NoRedis

\* The request has been answered.
HttpFinish(r, kind, psid, form) ==
    /\ r.st.db.nextFishId <= MaxFishId + 1
    /\ StoreDb(r.st.db)
    /\ response' = IF r.status = 200 THEN [ok |-> TRUE, aquarium |-> r.st.aq]
                   ELSE NoResponse
    /\ lastReq' = [kind |-> kind, psid |-> psid, time |-> now, form |-> form,
                   status |-> r.status, storage |-> r.storage]
    /\ steps' = steps + 1
    /\ UNCHANGED <<catalog, now, txn, backend, redis>>

HttpGet(psid) ==
    /\ steps < MaxHttpSteps
    /\ HttpFinish(httpGet(DB, psid, catalog, now), "get", psid, "none")

HttpPost(psid, body, rnd) ==
    /\ steps < MaxHttpSteps
    /\ HttpFinish(httpPost(DB, psid, body, catalog, now, rnd), "post", psid,
                  body.form)

NextHttp ==
    \/ \E psid \in RawPSIDs : HttpGet(psid)
    \/ \E psid \in RawPSIDs : \E body \in HttpBodies(sanitizedPSID(psid)) :
          \E rnd \in [1..(IF body.form = "object"
                          THEN Len(body.updates.fish) ELSE 0) -> catalog] :
              HttpPost(psid, body, rnd)
    \/ Tick(3)

SpecHttp == InitHttp /\ [][NextHttp]_vars

(***************************************************************************)
(* Claims about the engine (Spec).                                         *)
(***************************************************************************)
Completed == lastReq.kind \in {"load", "save"} /\ response.ok

FishRowsOf(a) == {f \in fish : f.aquarium_id = a.id}

HungerById(fishSeq) == {<<fishSeq[i].id, fishSeq[i].hunger>> : i \in 1..Len(fishSeq)}

\* A load has just been answered for the aquarium that the previous request,
\* a load as well, was answered for at the same clock reading.
LoadRepeated ==
    /\ lastReq.kind = "load" /\ response.ok
    /\ steps' = steps + 1
    /\ lastReq'.kind = "load" /\ response'.ok
    /\ lastReq'.psid = lastReq.psid
    /\ lastReq'.time = lastReq.time

\* C3: a second load of the same PSID with zero elapsed time returns the same
\* fish with the same hunger as the first, removes no fish and spawns none.
C3_IdempotentCatchUp ==
    [][LoadRepeated =>
          /\ HungerById(response'.aquarium.fish) = HungerById(response.aquarium.fish)
          /\ {f.id : f \in fish'} = {f.id : f \in fish}]_vars

\* C4: after any completed load or save every persisted fish of a catalog
\* species has hunger within [0, threshold of its species).
C4_HungerBelowThreshold ==
    Completed =>
        \A f \in fish :
            f.type \in catalog =>
                f.hunger >= 0 /\ f.hunger < FishDefs[f.type].hungerThreshold

\* C5: after every completed load or save the stored num_fish of the aquarium
\* equals the number of fish rows it owns.
C5_NumFishIsRowCount ==
    Completed =>
        \A a \in aquariums :
            a.psid = lastReq.psid => a.num_fish = Cardinality(FishRowsOf(a))

\* C6: after every completed load or save castle_unlocked holds only with at
\* least 2 fish rows in the aquarium and submarine_unlocked only with at
\* least 4.
C6_UnlocksNeedFish ==
    Completed =>
        \A a \in aquariums :
            /\ a.castle_unlocked => Cardinality(FishRowsOf(a)) >= CastleThreshold
            /\ a.submarine_unlocked =>
                   Cardinality(FishRowsOf(a)) >= SubmarineThreshold

\* C7: a push that requests castle: true returns castle_unlocked exactly when
\* the aquarium it returns has at least 2 fish, and one that requests
\* submarine: true returns submarine_unlocked exactly when it has at least 4.
C7_UnlockGating ==
    (lastReq.kind = "save" /\ response.ok) =>
        LET n == Len(response.aquarium.fish)
            u == lastReq.unlockables
        IN  /\ ("castle" \in DOMAIN u /\ u.castle) =>
                   (response.aquarium.castle_unlocked <=> n >= CastleThreshold)
            /\ ("submarine" \in DOMAIN u /\ u.submarine) =>
                   (response.aquarium.submarine_unlocked <=>
                        n >= SubmarineThreshold)

\* A load removed every fish row the aquarium had.
AllFishDied ==
    /\ lastReq.kind = "load" /\ response.ok
    /\ lastReq.before > 0
    /\ lastReq.removed = lastReq.before

\* C8: a load that finds every fish of the aquarium at its hunger threshold
\* returns tank_life_sec = 0, total_feedings = 0, num_fish = 1 and exactly one
\* fish, the starter spawned by that call.
C8_AllFishDeathReset ==
    AllFishDied =>
        /\ response.aquarium.tank_life_sec = 0
        /\ response.aquarium.total_feedings = 0
        /\ response.aquarium.num_fish = 1
        /\ Len(response.aquarium.fish) = 1
        /\ response.aquarium.fish[1].id = nextFishId - 1
        /\ response.aquarium.fish[1].hunger = 0
        /\ response.aquarium.fish[1].created_at = lastReq.time

C8_Witness == AllFishDied /\ Len(response.aquarium.fish) = 1

\* A push has just been served for a PSID that had no aquarium row.
SaveWithoutAquarium ==
    /\ steps' = steps + 1
    /\ lastReq'.kind = "save"
    /\ ~lastReq'.existed

RequestHitFault ==
    /\ steps' = steps + 1
    /\ lastReq'.faults > 0

\* C10: a load or save during which a storage statement throws reports
\* failure and leaves the aquarium, fish and leaderboard rows as they were
\* before the call.
C10_FailureLeavesStateUnchanged ==
    [][RequestHitFault =>
          /\ ~response'.ok
          /\ aquariums' = aquariums
          /\ fish' = fish
          /\ leaderboard' = leaderboard]_vars

\* C11: after any sequence of fetches and pushes the deployment with the
\* read-through cache has sent the same response and holds the same aquarium
\* and fish rows as the deployment without it.
C11_CacheTransparent ==
    /\ redis.response = response
    /\ redis.db.aquariums = aquariums
    /\ redis.db.fish = fish

(***************************************************************************)
(* Claims about hunger over several requests.  LoadAt and PushAt are the   *)
(* database a load or a push of fish updates leaves behind when it is the  *)
(* next request served.                                                    *)
(***************************************************************************)
OwnFish(db, psid) ==
    {f \in db.fish : \E a \in db.aquariums :
                        a.psid = psid /\ a.id = f.aquarium_id}

LoadAt(db, psid, time) ==
    getAndUpdateAquariumState(db, psid, catalog, time, -1).db

PushAt(db, psid, fishUpdates, time) ==
    saveAquariumState(db, psid,
        [meta |-> EmptyObject, fish |-> fishUpdates,
         unlockables |-> EmptyObject],
        catalog, time,
        [i \in 1..Len(fishUpdates) |-> CHOOSE c \in catalog : TRUE], -1).db

HungerOf(db, ids) == {<<f.id, f.hunger>> : f \in {g \in db.fish : g.id \in ids}}

\* A stored fish of a catalog species below its hunger threshold.
Alive(f) == f.type \in catalog /\ f.hunger < FishDefs[f.type].hungerThreshold

RateAt(f, time) ==
    getHungerRate(FishDefs[f.type], isFishActive(FishDefs[f.type], time))

\* C12: for every aquarium and every elapsed time T = 2 * half, one load
\* after T leaves its fish alive or dead and as hungry as a load after T/2
\* followed by a load after T.
C12_SplitCatchUp ==
    \A psid \in PSIDs : \A half \in 1..(MaxElapsed \div 2) :
        HasAquarium(DB, psid) =>
            LET ids == OwnFishIds(DB, psid)
                once == LoadAt(DB, psid, now + 2 * half)
                twice == LoadAt(LoadAt(DB, psid, now + half), psid,
                                now + 2 * half)
            IN  HungerOf(once, ids) = HungerOf(twice, ids)

\* C13: a load d minutes after a push that stored the client-reported hunger
\* h for a fish stores h + rate * d for it, or removes it when that reaches
\* the threshold: the time before the push is not added again.
C13_ElapsedCountedOnce ==
    \A psid \in PSIDs : \A f \in OwnFish(DB, psid) :
        \A h \in {0, Tenths(30)} : \A d \in {MaxElapsed \div 2} :
            f.type \in catalog =>
                LET pushed == PushAt(DB, psid, <<[id |-> f.id, hunger |-> h]>>,
                                     now)
                    loaded == LoadAt(pushed, psid, now + d)
                    expected == h + d * RateAt(f, now + d)
                IN  IF expected >= FishDefs[f.type].hungerThreshold
                    THEN HungerOf(loaded, {f.id}) = {}
                    ELSE HungerOf(loaded, {f.id}) = {<<f.id, expected>>}

\* C14: a fish that eats on the client and is reported by the client's next
\* push is stored with its hunger before the meal less 20, clamped at 0.
C14_FeedingTakesTwentyOnce ==
    \A psid \in PSIDs : \A f \in OwnFish(DB, psid) :
        Alive(f) =>
            LET fed == seekFoodBehavior(ClientFish(f), now)
                pushed == PushAt(DB, psid, <<getServerData(fed)>>, now)
            IN  HungerOf(pushed, {f.id}) =
                    {<<f.id, Max(0, f.hunger - Tenths(20))>>}

\* C16: a push with the fed flag stores max(0, h - 20), h being the hunger
\* the update reports, 0 included, or the stored hunger when it reports none.
C16_FedStoresClampedDifference ==
    \A psid \in PSIDs : \A f \in OwnFish(DB, psid) :
        Alive(f) =>
            /\ \A h \in {0, Tenths(5), Tenths(30), FishDefs[f.type].hungerThreshold} :
                  HungerOf(PushAt(DB, psid,
                               <<[id |-> f.id, hunger |-> h, fed |-> TRUE]>>,
                               now), {f.id})
                      = {<<f.id, Max(0, h - Tenths(20))>>}
            /\ HungerOf(PushAt(DB, psid, <<[id |-> f.id, fed |-> TRUE]>>, now),
                        {f.id})
                   = {<<f.id, Max(0, f.hunger - Tenths(20))>>}

\* A request has just been answered successfully.
Served == steps' = steps + 1 /\ response'.ok

\* C20: no request lowers the stored hunger of a live fish of a catalog
\* species except a push that feeds that fish (a feeding always changes spawn_count).
C20_HungerOnlyFallsByFeeding ==
    [][Served =>
          \A f \in fish : \A g \in fish' :
              (g.id = f.id /\ Alive(f) /\ g.hunger < f.hunger) =>
                  (lastReq'.kind = "save" /\ g.spawn_count # f.spawn_count)]_vars

(***************************************************************************)
(* Claims about feeding and spawning.  The pushes of SaveRequests feed at  *)
(* most one fish each, once or twice.                                      *)
(***************************************************************************)
AquariumRowOf(rows, psid) == CHOOSE a \in rows : a.psid = psid

\* A push has just been served for an aquarium that existed.
PushServed ==
    /\ Served
    /\ lastReq'.kind = "save"

NoFishRemoved == Cardinality(fish) = nextFishId - 1

\* C17: after n updateLeaderboard calls for n fish of strictly increasing
\* created_at and no removal, getLeaderboard returns min(n, 10) rows in
\* ascending created_at, and they are the min(n, 10) oldest fish recorded.
C17_TopTenOldest ==
    (lastReq.kind = "updateLeaderboard" /\ NoFishRemoved) =>
        LET top == getLeaderboard(DB)
            n == Cardinality(fish)
            best == {f.id : f \in
                       {g \in fish :
                          Cardinality({q \in fish : q.created_at < g.created_at})
                              < LeaderboardLimit}}
        IN  /\ Len(top) = Min(n, LeaderboardLimit)
            /\ \A i \in 1..Len(top) : \A j \in 1..Len(top) :
                  i < j => top[i].created_at < top[j].created_at
            /\ {top[i].fish_id : i \in 1..Len(top)} = best

\* An eleventh fish has been recorded and the read returns ten rows.
C17_Witness ==
    /\ lastReq.kind = "updateLeaderboard"
    /\ NoFishRemoved
    /\ Cardinality(fish) = LeaderboardLimit + 1
    /\ Len(getLeaderboard(DB)) = LeaderboardLimit

(***************************************************************************)
(* Claims about what a load returns (Spec, SpecFail).                      *)
(***************************************************************************)
\* The species spawnStarterFish picks: the first common one, or the first.
StarterType(cat) ==
    IF Len(getFishByRarity(cat, "common")) > 0
    THEN getFishByRarity(cat, "common")[1]
    ELSE getAllFishTypes(cat)[1]

\* C18: a load that reports success returns at least one fish below its
\* starvation threshold; for a PSID without an aquarium it has created the
\* aquarium and returns exactly one fish, of the starter species.
C18_LoadReturnsLiveFish ==
    (lastReq.kind = "load" /\ response.ok) =>
        LET returned == response.aquarium.fish
        IN  /\ \E i \in 1..Len(returned) : Alive(returned[i])
            /\ ~lastReq.existed =>
                  /\ HasAquarium(DB, lastReq.psid)
                  /\ Len(returned) = 1
                  /\ returned[1].type = StarterType(catalog)

\* A load has just been served for an aquarium that existed.
LoadServed ==
    /\ Served
    /\ lastReq'.kind = "load"
    /\ lastReq'.existed

\* The hunger updateFishStates computes for a row of a known species.
ComputedHunger(f, time) ==
    Min(FishDefs[f.type].hungerThreshold,
        f.hunger + (IF f.last_fed = InvalidDate THEN 0 ELSE time - f.last_fed)
                       * RateAt(f, time))

\* C19: a load deletes exactly the fish rows of the aquarium whose computed
\* hunger reaches the species threshold and keeps every other row, and the
\* stored num_fish falls by the number of rows deleted (a starter spawned by
\* the same load counted back in).
C19_RemovedIffStarved ==
    [][LoadServed =>
          LET psid == lastReq'.psid
              old == OwnFish(DB, psid)
              starved == {f \in old : /\ f.type \in catalog
                                      /\ ComputedHunger(f, now)
                                           >= FishDefs[f.type].hungerThreshold}
              removed == {f \in old : \A g \in fish' : g.id # f.id}
              spawned == Cardinality(fish') - Cardinality(fish \ removed)
          IN  /\ removed = starved
              /\ AquariumRowOf(aquariums', psid).num_fish =
                     AquariumRowOf(aquariums, psid).num_fish
                         - Cardinality(removed) + spawned]_vars

(***************************************************************************)
(* Claims about what a save leaves alone (SpecPush).                       *)
(***************************************************************************)
\* The columns of a fish row.
FishFields ==
    {"id", "aquarium_id", "type", "hunger", "x", "y", "last_fed",
     "spawn_count", "created_at"}

\* The columns changes carries for a feeding.
FedFields == {"hunger", "last_fed", "spawn_count"}

\* The properties the fish updates of a push supply for fish id.
Supplied(fishUpdates, id) ==
    UNION {DOMAIN fishUpdates[i] :
              i \in {j \in 1..Len(fishUpdates) : fishUpdates[j].id = id}}

\* The push carries update.fed for fish id.
FedIn(fishUpdates, id) ==
    \E i \in 1..Len(fishUpdates) :
        /\ fishUpdates[i].id = id
        /\ "fed" \in DOMAIN fishUpdates[i]
        /\ fishUpdates[i].fed

\* Every fish row is still there, changed at most in the columns `free`
\* gives for it.
FishFrame(free(_)) ==
    \A f \in fish : \E g \in fish' :
        /\ g.id = f.id
        /\ \A k \in FishFields \ free(f.id) : g[k] = f[k]

\* C21 as stated: a save deletes no fish row and changes a fish row only in
\* the columns the push supplies for that fish.
C21_SaveChangesSuppliedOnly ==
    [][PushServed =>
          FishFrame(LAMBDA id : Supplied(lastReq'.fish, id))]_vars

\* C21, amended: a save deletes no fish row and changes a fish row only in
\* the columns the push supplies for that fish and, when the push carries
\* the fed flag for it, in hunger, last_fed and spawn_count; no catch-up.
C21_SaveFrame ==
    [][PushServed =>
          FishFrame(LAMBDA id :
              Supplied(lastReq'.fish, id) \cup
                  (IF FedIn(lastReq'.fish, id) THEN FedFields ELSE {}))]_vars

\* A save has been served at a time when a fish of the aquarium had not
\* been fed for a while and its row still holds hunger 0.
C21_Witness ==
    /\ lastReq.kind = "save"
    /\ response.ok
    /\ lastReq.time = now
    /\ \E f \in OwnFish(DB, lastReq.psid) :
          /\ f.type \in catalog
          /\ f.last_fed < now
          /\ f.hunger = 0

(***************************************************************************)
(* Claims about the HTTP layer (SpecHttp).                                 *)
(***************************************************************************)
\* The request just answered had no psid, or one that sanitizes to fewer
\* than 3 characters, or a body that is not a well-formed push.
InvalidRequest ==
    /\ lastReq.kind \in {"get", "post"}
    /\ \/ lastReq.psid = <<>>
       \/ Len(sanitizedPSID(lastReq.psid)) < MinPsidLength
       \/ lastReq.form \in {"invalid_json", "fish_not_list"}

\* C22: a request without psid, with a psid that sanitizes to fewer than 3
\* characters, or with a malformed body is answered with a 4xx status and
\* no storage call was made for it.
C22_InvalidRequestRejected ==
    InvalidRequest => (lastReq.status \in 400..499 /\ ~lastReq.storage)

(***************************************************************************)
(* Claims about concurrent saves (SpecSaveConc).                           *)
(***************************************************************************)
BothSavesOver == \A c \in Callers : txn[c].pc \in {"done", "failed"}

\* Every column of the aquarium row and of every fish row holds the value
\* written to it last, or the value it had before the saves when neither
\* save wrote it.
LastWriteWins ==
    /\ \A a \in aquariums :
          LET before == AquariumRowOf(lastReq.initial.aquariums, a.psid)
          IN  \A k \in DOMAIN a :
                 a[k] = IF k \in DOMAIN lastReq.aquarium
                        THEN lastReq.aquarium[k] ELSE before[k]
    /\ \A f \in fish :
          \A k \in DOMAIN f \ {"id", "aquarium_id", "created_at"} :
             IF <<f.id, k>> \in DOMAIN lastReq.fish
             THEN f[k] = lastReq.fish[<<f.id, k>>]
             ELSE \E g \in lastReq.initial.fish : g.id = f.id /\ g[k] = f[k]

\* C23: two saves for the same PSID running at the same time both complete
\* without error, and every stored aquarium and fish column then holds the
\* value one of the two saves wrote to it last, never a value neither wrote.
C23_ConcurrentSaves ==
    BothSavesOver => ((\A c \in Callers : txn[c].pc = "done") /\ LastWriteWins)

\* Both saves are over, each has fed a fish, and the aquarium counts one
\* feeding: the later write of total_feedings replaced the earlier one.
C23_Witness ==
    /\ BothSavesOver
    /\ "total_feedings" \in DOMAIN lastReq.aquarium
    /\ \E a \in aquariums :
          a.total_feedings =
              AquariumRowOf(lastReq.initial.aquariums, a.psid).total_feedings + 1
    /\ \E f \in fish : f.id \notin {g.id : g \in lastReq.initial.fish}
    /\ Cardinality(fish) = Cardinality(lastReq.initial.fish) + 2

(***************************************************************************)
(* Claims about data anomalies met by a load (Spec).                       *)
(***************************************************************************)
\* A load of an aquarium that existed has just been answered, well or not.
LoadAnswered ==
    /\ steps' = steps + 1
    /\ lastReq'.kind = "load"
    /\ lastReq'.existed

\* C24: a load of an aquarium holding a fish of a species that is not in
\* the catalog succeeds, returns no fish of such a species, and returns
\* every fish of a catalog species that has not starved with the hunger the
\* catch-up computes for it (to the 0.1 the code stores it to).
C24_UnknownSpeciesSkipped ==
    [][(LoadAnswered
        /\ \E f \in OwnFish(DB, lastReq'.psid) : f.type \notin catalog) =>
          LET old == OwnFish(DB, lastReq'.psid)
              returned == response'.aquarium.fish
          IN  /\ response'.ok
              /\ \A i \in 1..Len(returned) : returned[i].type \in catalog
              /\ \A f \in old :
                    (/\ f.type \in catalog
                     /\ ComputedHunger(f, now) < FishDefs[f.type].hungerThreshold)
                    => \E i \in 1..Len(returned) :
                          /\ returned[i].id = f.id
                          /\ returned[i].hunger - ComputedHunger(f, now) \in -1..1
      ]_vars

\* A load has returned a fish that was caught up above hunger 0 while the
\* aquarium holds a row of a species that is not in the catalog.
C24_Witness ==
    /\ lastReq.kind = "load"
    /\ lastReq.existed
    /\ response.ok
    /\ \E f \in OwnFish(DB, lastReq.psid) : f.type \notin catalog
    /\ \E i \in 1..Len(response.aquarium.fish) :
          /\ response.aquarium.fish[i].hunger > 0
          /\ response.aquarium.fish[i].last_fed < lastReq.time

\* C25: a load of an aquarium holding a fish whose last_fed cannot be
\* parsed succeeds, keeps the row of that fish and leaves its hunger as it
\* was.
C25_UnparsableLastFedIsNow ==
    [][LoadAnswered =>
          \A f \in OwnFish(DB, lastReq'.psid) :
              f.last_fed = InvalidDate =>
                  /\ response'.ok
                  /\ \E g \in fish' : g.id = f.id /\ g.hunger = f.hunger]_vars

(***************************************************************************)
(* Claims about the draw of a species (SpecSelect).                        *)
(***************************************************************************)
\* The normalized weight of rarity r is `factor` = n/d times its base
\* weight, over the total.
ScaledBy(r, n, d) == response.weights[r].num * d = rarityWeights[r] * n

\* The four normalized weights sum to 1.
SumsToOne ==
    \A r \in DOMAIN response.weights :
        response.weights[r].den =
            response.weights.common.num + response.weights.uncommon.num
                + response.weights.rare.num + response.weights.very_rare.num

\* C26 as stated: rare and very_rare are scaled by 1.5 each past 24 hours,
\* very_rare by a further 1.5 past 72 hours, common and uncommon are not
\* scaled, and the four weights are normalized to sum to 1.
C26_RarityScaling ==
    lastReq.kind = "drawn" =>
        LET h == lastReq.tankLifeHours
        IN  /\ ScaledBy("common", 1, 1)
            /\ ScaledBy("uncommon", 1, 1)
            /\ ScaledBy("rare", IF h > 24 THEN 3 ELSE 2, 2)
            /\ ScaledBy("very_rare",
                        IF h > 72 THEN 9 ELSE IF h > 24 THEN 6 ELSE 4, 4)
            /\ SumsToOne

\* C26, amended: past 24 hours rare is scaled by 1.5 and very_rare by 2,
\* past 72 hours very_rare by a further 1.5 (3 in all); common and uncommon
\* are not scaled, and the four weights are normalized to sum to 1.
C26_RarityScalingAsCoded ==
    lastReq.kind = "drawn" =>
        LET h == lastReq.tankLifeHours
        IN  /\ ScaledBy("common", 1, 1)
            /\ ScaledBy("uncommon", 1, 1)
            /\ ScaledBy("rare", IF h > 24 THEN 3 ELSE 2, 2)
            /\ ScaledBy("very_rare",
                        IF h > 72 THEN 3 ELSE IF h > 24 THEN 2 ELSE 1, 1)
            /\ SumsToOne

\* A species has been drawn for a tank older than 72 hours with very_rare at
\* three times its base weight.
C26_Witness ==
    /\ lastReq.kind = "drawn"
    /\ lastReq.tankLifeHours > 72
    /\ ScaledBy("very_rare", 3, 1)
    /\ ScaledBy("rare", 3, 2)

\* C27: with a catalog that is not empty the draw returns a species of the
\* catalog: one of the drawn rarity when the catalog has a species of that
\* rarity, otherwise some species of the catalog.
C27_DrawReturnsCatalogSpecies ==
    (lastReq.kind = "drawn" /\ catalog # {}) =>
        /\ response.species \in catalog
        /\ (\E s \in catalog : FishDefs[s].rarity = response.rarity)
               => FishDefs[response.species].rarity = response.rarity

\* A draw of a rarity the catalog has no species of has returned a species.
C27_Witness ==
    /\ lastReq.kind = "drawn"
    /\ \A s \in catalog : FishDefs[s].rarity # response.rarity
    /\ response.species \in catalog

(***************************************************************************)
(* Claims about starvation (SpecStarve).                                   *)
(***************************************************************************)
\* The time since f was last fed, at a load served at `time`, has reached
\* feedIntervalMin * 60 seconds for an active species and
\* feedIntervalMin * 60 / 0.3 seconds for a resting one.
IntervalElapsed(f, time) ==
    LET fishType == FishDefs[f.type]
        seconds == (time - f.last_fed) * 60
    IN  IF isFishActive(fishType, time)
        THEN seconds >= fishType.feedIntervalMin * 60
        ELSE seconds * 3 >= fishType.feedIntervalMin * 60 * 10

\* C28: a load removes a fish stored with hunger 0 exactly when the time
\* since it was last fed has reached its feed interval, if its species is
\* active at the time of the load, and its feed interval divided by 0.3 if
\* the species is resting.
C28_StarvesAfterInterval ==
    [][LoadAnswered =>
          \A f \in OwnFish(DB, lastReq'.psid) :
              (f.hunger = 0 /\ f.type \in catalog /\ f.last_fed # InvalidDate)
                  => ((f.id \notin {g.id : g \in fish'})
                          <=> IntervalElapsed(f, lastReq'.time))]_vars

\* A load has removed the resting Clownfish, 17 minutes after its last
\* feeding, and has kept a younger fish.
C28_Witness ==
    /\ lastReq.kind = "load"
    /\ lastReq.removed > 0
    /\ lastReq.time = Dusk + 17
    /\ 1 \notin {g.id : g \in fish}
    /\ \E g \in fish : g.last_fed > Dusk

(***************************************************************************)
(* Claims about the two backends (SpecGateway).                            *)
(***************************************************************************)
\* A gateway operation has just returned.
GatewayReturned == steps' = steps + 1 /\ lastReq'.kind = "gateway"

\* The operation that has just returned leaves the same tables on SQLite and
\* on PostgreSQL.
SameOnBothBackends ==
    GatewayApply("sqlite", DB, lastReq'.op, now)
        = GatewayApply("postgres", DB, lastReq'.op, now)

\* An update has changed nothing but the named columns of the row it names.
OnlyNamedFieldsChange ==
    LET op == lastReq'.op
    IN  /\ op.name = "updateFish" =>
              /\ aquariums' = aquariums /\ leaderboard' = leaderboard
              /\ {g.id : g \in fish'} = {f.id : f \in fish}
              /\ \A f \in fish : \A g \in fish' : g.id = f.id =>
                     \A k \in DOMAIN f :
                         (f.id # op.id \/ k \notin DOMAIN op.updates)
                             => g[k] = f[k]
        /\ op.name = "updateAquarium" =>
              /\ fish' = fish /\ leaderboard' = leaderboard
              /\ {b.id : b \in aquariums'} = {a.id : a \in aquariums}
              /\ \A a \in aquariums : \A b \in aquariums' : b.id = a.id =>
                     \A k \in DOMAIN a :
                         k \notin DOMAIN op.updates => b[k] = a[k]

\* C29: every gateway operation leaves the same aquarium, fish and
\* leaderboard tables on SQLite and on PostgreSQL, and updateAquarium and
\* updateFish change only the named fields on both.
C29_BackendParity ==
    [][GatewayReturned => (SameOnBothBackends /\ OnlyNamedFieldsChange)]_vars

(***************************************************************************)
(* Claims about the gateway calls of a save (SpecSaveLog).                 *)
(***************************************************************************)
\* The calls the save made after its last call that is not updateLeaderboard:
\* after all its aquarium, fish and unlock updates.
FinalCalls ==
    LET log == lastReq.log
        others == {i \in 1..Len(log) : log[i].op # "updateLeaderboard"}
        last == IF others = {} THEN 0
                ELSE CHOOSE i \in others : \A j \in others : j <= i
    IN  SubSeq(log, last + 1, Len(log))

SaveReturned == lastReq.kind = "statements" /\ txn[Saver].pc = "done"

\* C30: when a save returns, the calls it made after all its fish and
\* unlock updates are one updateLeaderboard for each fish of the aquarium,
\* a fish spawned during the save included, and nothing else.
C30_LeaderboardOncePerFish ==
    SaveReturned =>
        /\ \A f \in OwnFish(DB, "p1") :
               Cardinality({i \in 1..Len(FinalCalls) :
                               FinalCalls[i].id = f.id}) = 1
        /\ \A i \in 1..Len(FinalCalls) :
               FinalCalls[i].id \in OwnFishIds(DB, "p1")

\* A save that spawned a fish has returned after calling updateLeaderboard
\* for the new fish at the end.
C30_Witness ==
    /\ SaveReturned
    /\ \E i \in 1..Len(lastReq.log) : \E j \in 1..Len(FinalCalls) :
          /\ lastReq.log[i].op = "addFish"
          /\ FinalCalls[j].id = lastReq.log[i].id

(***************************************************************************)
(* Claims about what a save may store (SpecPush).                          *)
(***************************************************************************)
InWorld(p) == 0 <= p.x /\ p.x <= WorldWidth /\ 0 <= p.y /\ p.y <= WorldHeight

C32_BestTankLifeKept ==
    [][\A old \in leaderboard : \A new \in leaderboard' :
           (steps' = steps + 1 /\ old.psid = lastReq'.psid
                /\ new.psid = lastReq'.psid)
               => new.tank_life_sec >= old.tank_life_sec]_vars

(***************************************************************************)
(* Claims about the cache out of service (SpecCacheFault).                 *)
(***************************************************************************)
\* A fetch has just been served with the cache disabled or failing.
FetchedWithoutCache ==
    /\ steps' = steps + 1
    /\ lastReq'.kind = "load"
    /\ lastReq'.mode # "up"

\* C33: a fetch served while the cache is disabled or its commands fail is
\* answered, the cache client having reported a miss for the read and false
\* for the write, with the aquarium the gateway alone gives and with the
\* database the gateway alone leaves; the cache is left as it was.
C33_CacheFallsBack ==
    [][FetchedWithoutCache =>
          /\ response'.ok
          /\ ~lastReq'.read
          /\ ~lastReq'.write
          /\ redis'.store = redis.store
          /\ \E g \in {getAquariumState(DB, [p \in {} |-> 0], FALSE,
                                        lastReq'.psid, catalog, now)} :
                /\ response'.aquarium = g.st.aq
                /\ fish' = g.st.db.fish
                /\ aquariums' = g.st.db.aquariums]_vars

\* A fetch of an aquarium the cache holds an unexpired entry of has been
\* answered while the commands of the cache failed.
C33_Witness ==
    /\ lastReq.kind = "load"
    /\ lastReq.mode = "failing"
    /\ response.ok
    /\ redisHit(redis.store, TRUE, lastReq.psid, lastReq.time)

(***************************************************************************)
(* Claims about the species catalog (SpecCatalog).                         *)
(***************************************************************************)
\* C34: every species of the loaded catalog has a hunger threshold above 0
\* and a feed interval above 0.
C34_CatalogNumbersPositive ==
    lastReq.kind = "loaded" =>
        \A t \in lastReq.fishTypes :
            /\ ~t.hungerThreshold.nan /\ t.hungerThreshold.value > 0
            /\ ~t.feedIntervalMin.nan /\ t.feedIntervalMin.value > 0

(***************************************************************************)
(* Claims about a load running beside another request (SpecMix).           *)
(***************************************************************************)
MixDone == \A c \in Callers : txn[c].pc = "done"

MixCalls == {lastReq.calls[c] : c \in Callers}

\* C35: once a save and a load for the same aquarium have both completed,
\* every leaderboard row refers to an existing fish row.
C35_LeaderboardRowsHaveFish ==
    (MixDone /\ MixCalls = {"save", "load"})
        => \A r \in leaderboard : \E f \in fish : f.id = r.fish_id

\* C36: two concurrent loads of an aquarium without a live fish end with
\* exactly one fish row in it and num_fish = 1.
C36_OneStarterFish ==
    (MixDone /\ MixCalls = {"load"} /\ ~lastReq.live)
        => /\ Cardinality(OwnFish(DB, "p1")) = 1
           /\ getAquarium(DB, "p1").num_fish = 1

(***************************************************************************)
(* Claims about the client's saves (SpecClient).                           *)
(***************************************************************************)
\* C37: a feeding no successful save has carried yet is not lost: its fish
\* still has the fed flag set, or a save in flight carries it.
C37_FedFlagKept ==
    \A id \in lastReq.owed :
        \/ lastReq.client.fish[id].justFed
        \/ \E request \in lastReq.pending : id \in FedFlagsOf(request)

\* C38: a save is sent only while the client is online with fewer than 3
\* consecutive failures, a successful save resets the count, the third
\* consecutive failure puts the client offline, and once that has happened
\* no save is sent.
C38_SavesOnlyWhileOnline ==
    [][/\ lastReq'.sent # lastReq.sent
          => /\ lastReq.client.isOnline
             /\ lastReq.client.syncAttempts < maxSyncAttempts
             /\ ~lastReq.wentOffline
       /\ lastReq'.succeeded # lastReq.succeeded
          => lastReq'.client.syncAttempts = 0
       /\ (lastReq'.failed # lastReq.failed
           /\ lastReq'.client.syncAttempts >= maxSyncAttempts)
          => ~lastReq'.client.isOnline]_vars

(***************************************************************************)
(* Claims about what a save stores for a fish (SpecPush).                  *)
(***************************************************************************)
\* C39: after a completed save every stored fish has a spawn_count from 0
\* to 4, one less than the feedings a spawn requires.
C39_SpawnCountBelowRequired ==
    (lastReq.kind = "save" /\ response.ok)
        => \A f \in fish : f.spawn_count \in 0..(feedingsRequired - 1)

\* A save fed the fish that had been fed four times: its count is back at
\* 0 and the aquarium holds the fish it spawned.
C39_Witness ==
    /\ lastReq.kind = "save"
    /\ response.ok
    /\ \E i \in 1..Len(lastReq.fish) :
          /\ "fed" \in DOMAIN lastReq.fish[i]
          /\ \E f \in fish : /\ f.id = lastReq.fish[i].id
                              /\ f.spawn_count = 0
                              /\ f.last_fed = lastReq.time
    /\ \E a \in aquariums : a.total_feedings = feedingsRequired /\ a.num_fish = 2

(***************************************************************************)
(* Claims about the fish a save may touch (SpecTwoTanks).                  *)
(***************************************************************************)
\* The push of the step names only fish that are not in the sender's
\* aquarium.
NamesOnlyForeignFish ==
    /\ Len(lastReq'.fish) > 0
    /\ \A i \in 1..Len(lastReq'.fish) :
          lastReq'.fish[i].id \notin OwnFishIds(DB, lastReq'.psid)

\* C40: a save for one PSID leaves every fish row and every aquarium row of
\* another PSID as it was, and a save whose fish updates all name fish that
\* are not in the sender's aquarium changes no fish row at all.
C40_SaveTouchesOwnFishOnly ==
    [][steps' = steps + 1
         => /\ \A f \in fish :
                  f.id \notin OwnFishIds(DB, lastReq'.psid) => f \in fish'
            /\ \A a \in aquariums : a.psid # lastReq'.psid => a \in aquariums'
            /\ \A f \in fish' :
                  f.id \notin OwnFishIds(DB', lastReq'.psid) => f \in fish
            /\ NamesOnlyForeignFish => fish' = fish]_vars

\* A completed save fed a fish of the other aquarium, which holds that fish
\* as it was stored at noon.
C40_Witness ==
    /\ lastReq.kind = "save"
    /\ response.ok
    /\ \E i \in 1..Len(lastReq.fish) :
          /\ "fed" \in DOMAIN lastReq.fish[i]
          /\ lastReq.fish[i].id \notin OwnFishIds(DB, lastReq.psid)
          /\ \E f \in fish : /\ f.id = lastReq.fish[i].id
                              /\ f.last_fed = Noon
                              /\ f.spawn_count = 0
                              /\ f.hunger = 0

====
